---- MODULE Spec2Model ----
(***************************************************************************)
(* Offline-first synchronisation engine of FieldPulse: the durable         *)
(* mutation queue (sync_queue table), the local job cache (jobs table),    *)
(* the sync store (pull / push cycle) and the part of the backend the      *)
(* cycle talks to.                                                         *)
(***************************************************************************)
EXTENDS Integers, Sequences, FiniteSets, TLC

VARIABLES
    queue,        \* rows of table sync_queue
    nextId,       \* AUTOINCREMENT counter of sync_queue.id
    enq,          \* per caller: an addToQueue call between its DELETE and its INSERT
    deviceClock,  \* device clock (strftime('%s','now'), Date.now())
    localJobs,    \* rows of table jobs (the local job cache)
    memJobs,      \* jobsStore.jobs: the in-memory job list of the UI
    server,       \* backend table jobs
    serverClock,  \* backend clock (new Date() in the routes)
    networkStatus,
    isSyncing,
    lastSyncedAt, \* the SyncCursor
    pendingCount,
    conflicts,
    backoff,      \* the retryWithBackoff invocation in progress: its position and locals
    photo,        \* photoUploadStore: queue, isProcessing, and the startProcessing invocations
    svc,          \* per backend request handler running updateJob: its position and locals
    error,
    cycle,        \* per startSync invocation: its position and locals
    hist          \* observation of the last step, for the properties only

vars == <<queue, nextId, enq, deviceClock, localJobs, memJobs, server,
          serverClock, networkStatus, isSyncing, lastSyncedAt, pendingCount,
          conflicts, backoff, photo, svc, error, cycle, hist>>

----------------------------------------------------------------------------
(* Bounds *)

MaxItems == 2        \* number of rows the engine's callers ever insert into sync_queue
MaxQueueCalls == 3   \* number of addToQueue calls made on the repository alone
MaxClock == 2        \* device clock and backend clock readings
MaxVersion == 2      \* highest job version the backend reaches
MaxLocalVersion == 2 \* highest local_version local saves drive a record to
MaxLimit == 2        \* largest limit below the default passed to getNextQueueItems
MaxRetryCount == 4   \* highest retry_count direct markItemFailed calls drive a row to
MaxRetriesArg == 4   \* largest maxRetries passed to retryWithBackoff
MaxPhotos == 2       \* number of photos queuePhoto is called with

(* Program constants *)

RETRY_CAP == 3       \* retry_count < 3 in getNextQueueItems
BATCH_LIMIT == 10    \* getNextQueueItems(10) in pushChanges
MAX_RETRIES == 3     \* retryWithBackoff maxRetries
BASE_DELAY == 1000   \* retryWithBackoff baseDelay
PHOTO_MAX_RETRIES == 3  \* MAX_RETRIES of photoUploadStore

NULL == -1           \* SQL NULL / JS null in a numeric column
NULLTEXT == "NULL"   \* SQL NULL in a text column
UNDEFINED == "undefined"

EntityTypes == {"job", "checklist_response", "photo", "signature"}
SyncActions == {"create", "update", "delete"}
JobIds == {"job-1", "job-2"}
Statuses == {"pending", "in_progress", "completed"}
Callers == {"ui-1", "ui-2"}
EngineCallers == {"ui-1"}
Cycles == {1, 2}
Handlers == {"req-1", "req-2"}

----------------------------------------------------------------------------
(* sync_queue repository: src/src/db/repositories/syncQueue.ts *)

\* JSON.stringify / JSON.parse of a payload
JsonStringify(p) == <<"json", p>>
JsonParse(s) == s[2]

\* rowToItem
rowToItem(row) ==
    [id |-> row.id,
     entityType |-> row.entity_type,
     entityId |-> row.entity_id,
     action |-> row.action,
     payload |-> JsonParse(row.payload),
     filePath |-> IF row.file_path = NULLTEXT THEN UNDEFINED ELSE row.file_path,
     retryCount |-> row.retry_count,
     lastError |-> IF row.last_error = NULLTEXT THEN UNDEFINED ELSE row.last_error,
     priority |-> row.priority,
     createdAt |-> row.created_at]

\* the DELETE left out
DeleteForEntity_None(q, entityType, entityId) == q

\* DELETE FROM sync_queue WHERE entity_type = ? AND entity_id = ?
DeleteForEntity(q, entityType, entityId) ==
    {r \in q : ~(r.entity_type = entityType /\ r.entity_id = entityId)}

\* the INSERT without the priority column: the row takes DEFAULT 0
InsertRow_DefaultPriority(q, id, entityType, entityId, action, payload, filePath, priority, now) ==
    q \cup {[id |-> id,
             entity_type |-> entityType,
             entity_id |-> entityId,
             action |-> action,
             payload |-> JsonStringify(payload),
             file_path |-> IF filePath = UNDEFINED THEN NULLTEXT ELSE filePath,
             retry_count |-> 0,
             last_error |-> NULLTEXT,
             priority |-> 0,
             created_at |-> now]}

\* INSERT INTO sync_queue (...) VALUES (...); the other columns take their defaults
InsertRow(q, id, entityType, entityId, action, payload, filePath, priority, now) ==
    q \cup {[id |-> id,
             entity_type |-> entityType,
             entity_id |-> entityId,
             action |-> action,
             payload |-> JsonStringify(payload),
             file_path |-> IF filePath = UNDEFINED THEN NULLTEXT ELSE filePath,
             retry_count |-> 0,
             last_error |-> NULLTEXT,
             priority |-> priority,
             created_at |-> now]}

\* DELETE FROM sync_queue WHERE id = ?   (markItemSuccess)
DeleteById(q, id) == {r \in q : r.id # id}

\* removeFromQueue
RemoveById(q, id) == {r \in q : r.id # id}

\* the UPDATE recording the error without counting the attempt
FailById_NoCount(q, id, err) ==
    {IF r.id = id THEN [r EXCEPT !.last_error = err] ELSE r : r \in q}

\* UPDATE sync_queue SET retry_count = retry_count + 1, last_error = ? WHERE id = ?
FailById(q, id, err) ==
    {IF r.id = id
        THEN [r EXCEPT !.retry_count = r.retry_count + 1, !.last_error = err]
        ELSE r : r \in q}

\* UPDATE sync_queue SET retry_count = 0, last_error = NULL WHERE id = ?
ResetById(q, id) ==
    {IF r.id = id
        THEN [r EXCEPT !.retry_count = 0, !.last_error = NULLTEXT]
        ELSE r : r \in q}

\* the count taken over the rows getNextQueueItems selects from
getQueueCount_ActiveOnly(q) == Cardinality({r \in q : r.retry_count < 3})

\* SELECT COUNT(*) FROM sync_queue
getQueueCount(q) == Cardinality(q)

\* ORDER BY priority ASC in place of DESC
Before_PriorityAsc(a, b) ==
    \/ a.priority < b.priority
    \/ a.priority = b.priority /\ a.created_at < b.created_at

\* ORDER BY priority DESC, created_at ASC; the order of rows equal in both is
\* not fixed by the statement
Before(a, b) ==
    \/ a.priority > b.priority
    \/ a.priority = b.priority /\ a.created_at < b.created_at

RECURSIVE Orderings(_)
Orderings(rows) ==
    IF rows = {} THEN {<<>>}
    ELSE UNION {{<<r>> \o rest : rest \in Orderings(rows \ {r})} :
                   r \in {x \in rows : \A y \in rows : ~Before(y, x)}}

Prefix(sq, n) == IF Len(sq) <= n THEN sq ELSE SubSeq(sq, 1, n)

\* the SELECT without WHERE retry_count < 3
getNextQueueItems_NoCap(q, limit) ==
    {[i \in 1..Len(Prefix(o, limit)) |-> rowToItem(o[i])] : o \in Orderings(q)}

\* getNextQueueItems(limit): the results the SELECT can return
getNextQueueItems(q, limit) ==
    {[i \in 1..Len(Prefix(o, limit)) |-> rowToItem(o[i])] :
        o \in Orderings({r \in q : r.retry_count < RETRY_CAP})}

RECURSIVE OrderingsByCreatedAt(_)
\* ORDER BY created_at ASC
OrderingsByCreatedAt(rows) ==
    IF rows = {} THEN {<<>>}
    ELSE UNION {{<<r>> \o rest : rest \in OrderingsByCreatedAt(rows \ {r})} :
                   r \in {x \in rows : \A y \in rows : y.created_at >= x.created_at}}

\* WHERE retry_count > 3 in place of >= 3
getFailedItems_Above(q) ==
    {[i \in 1..Len(o) |-> rowToItem(o[i])] :
        o \in OrderingsByCreatedAt({r \in q : r.retry_count > RETRY_CAP})}

\* getFailedItems(): the results the SELECT can return
getFailedItems(q) ==
    {[i \in 1..Len(o) |-> rowToItem(o[i])] :
        o \in OrderingsByCreatedAt({r \in q : r.retry_count >= RETRY_CAP})}

----------------------------------------------------------------------------
(* local job cache: src/db/repositories/jobs.ts *)

\* a Job as the client and the backend exchange it
Job(id, status, version) == [id |-> id, status |-> status, version |-> version]

JobRows(t, id) == {r \in t : r.id = id}

\* saveJob with >= in place of > in the version test
saveJob_Geq(t, job, fromServer, now) ==
    LET existing == JobRows(t, job.id) IN
    IF existing # {}
    THEN LET localJob == CHOOSE r \in existing : TRUE IN
         IF fromServer
         THEN IF localJob.is_dirty = 0
                 \/ job.version >= (IF localJob.server_version = NULL THEN 0
                                    ELSE localJob.server_version)
              THEN (t \ existing) \cup
                   {[localJob EXCEPT !.data = JsonStringify(job),
                                     !.server_version = job.version,
                                     !.last_synced_at = now,
                                     !.is_dirty = 0]}
              ELSE t
         ELSE (t \ existing) \cup
              {[localJob EXCEPT !.data = JsonStringify(job),
                                !.local_version = localJob.local_version + 1,
                                !.is_dirty = 1]}
    ELSE t \cup {[id |-> job.id,
                  data |-> JsonStringify(job),
                  server_version |-> IF fromServer THEN job.version ELSE NULL,
                  local_version |-> 1,
                  is_dirty |-> IF fromServer THEN 0 ELSE 1,
                  last_synced_at |-> IF fromServer THEN now ELSE NULL,
                  created_at |-> now]}

\* the local UPDATE without local_version = local_version + 1
saveJob_LocalKeepsVersion(t, job, fromServer, now) ==
    LET existing == JobRows(t, job.id) IN
    IF existing # {}
    THEN LET localJob == CHOOSE r \in existing : TRUE IN
         IF fromServer
         THEN IF localJob.is_dirty = 0
                 \/ job.version > (IF localJob.server_version = NULL THEN 0
                                   ELSE localJob.server_version)
              THEN (t \ existing) \cup
                   {[localJob EXCEPT !.data = JsonStringify(job),
                                     !.server_version = job.version,
                                     !.last_synced_at = now,
                                     !.is_dirty = 0]}
              ELSE t
         ELSE (t \ existing) \cup
              {[localJob EXCEPT !.data = JsonStringify(job), !.is_dirty = 1]}
    ELSE t \cup {[id |-> job.id,
                  data |-> JsonStringify(job),
                  server_version |-> IF fromServer THEN job.version ELSE NULL,
                  local_version |-> 1,
                  is_dirty |-> IF fromServer THEN 0 ELSE 1,
                  last_synced_at |-> IF fromServer THEN now ELSE NULL,
                  created_at |-> now]}

\* the server update applied only when the incoming version is newer, the
\* record dirty or not
saveJob_NewerOnly(t, job, fromServer, now) ==
    LET existing == JobRows(t, job.id) IN
    IF existing # {}
    THEN LET localJob == CHOOSE r \in existing : TRUE IN
         IF fromServer
         THEN IF job.version > (IF localJob.server_version = NULL THEN 0
                                ELSE localJob.server_version)
              THEN (t \ existing) \cup
                   {[localJob EXCEPT !.data = JsonStringify(job),
                                     !.server_version = job.version,
                                     !.last_synced_at = now,
                                     !.is_dirty = 0]}
              ELSE t
         ELSE (t \ existing) \cup
              {[localJob EXCEPT !.data = JsonStringify(job),
                                !.local_version = localJob.local_version + 1,
                                !.is_dirty = 1]}
    ELSE t \cup {[id |-> job.id,
                  data |-> JsonStringify(job),
                  server_version |-> IF fromServer THEN job.version ELSE NULL,
                  local_version |-> 1,
                  is_dirty |-> IF fromServer THEN 0 ELSE 1,
                  last_synced_at |-> IF fromServer THEN now ELSE NULL,
                  created_at |-> now]}

\* the INSERT storing no server_version for a job that came from the server
saveJob_InsertNoServerVersion(t, job, fromServer, now) ==
    LET existing == JobRows(t, job.id) IN
    IF existing # {}
    THEN LET localJob == CHOOSE r \in existing : TRUE IN
         IF fromServer
         THEN IF localJob.is_dirty = 0
                 \/ job.version > (IF localJob.server_version = NULL THEN 0
                                   ELSE localJob.server_version)
              THEN (t \ existing) \cup
                   {[localJob EXCEPT !.data = JsonStringify(job),
                                     !.server_version = job.version,
                                     !.last_synced_at = now,
                                     !.is_dirty = 0]}
              ELSE t
         ELSE (t \ existing) \cup
              {[localJob EXCEPT !.data = JsonStringify(job),
                                !.local_version = localJob.local_version + 1,
                                !.is_dirty = 1]}
    ELSE t \cup {[id |-> job.id,
                  data |-> JsonStringify(job),
                  server_version |-> NULL,
                  local_version |-> 1,
                  is_dirty |-> IF fromServer THEN 0 ELSE 1,
                  last_synced_at |-> IF fromServer THEN now ELSE NULL,
                  created_at |-> now]}

\* saveJob(job, fromServer) at device time now
saveJob(t, job, fromServer, now) ==
    LET existing == JobRows(t, job.id) IN
    IF existing # {}
    THEN LET localJob == CHOOSE r \in existing : TRUE IN
         IF fromServer
         THEN IF localJob.is_dirty = 0
                 \/ job.version > (IF localJob.server_version = NULL THEN 0
                                   ELSE localJob.server_version)
              THEN (t \ existing) \cup
                   {[localJob EXCEPT !.data = JsonStringify(job),
                                     !.server_version = job.version,
                                     !.last_synced_at = now,
                                     !.is_dirty = 0]}
              ELSE t
         ELSE (t \ existing) \cup
              {[localJob EXCEPT !.data = JsonStringify(job),
                                !.local_version = localJob.local_version + 1,
                                !.is_dirty = 1]}
    ELSE t \cup {[id |-> job.id,
                  data |-> JsonStringify(job),
                  server_version |-> IF fromServer THEN job.version ELSE NULL,
                  local_version |-> 1,
                  is_dirty |-> IF fromServer THEN 0 ELSE 1,
                  last_synced_at |-> IF fromServer THEN now ELSE NULL,
                  created_at |-> now]}

\* saveJobs(jobs, fromServer): one transaction, the same branch per job
RECURSIVE saveJobs(_, _, _, _)
saveJobs(t, jobs, fromServer, now) ==
    IF jobs = {} THEN t
    ELSE LET job == CHOOSE j \in jobs : TRUE IN
         saveJobs(saveJob(t, job, fromServer, now), jobs \ {job}, fromServer, now)

\* the DELETE sparing a dirty record
deleteJob_CleanOnly(t, jobId) == {r \in t : r.id # jobId \/ r.is_dirty = 1}

\* deleteJob
deleteJob(t, jobId) == {r \in t : r.id # jobId}

\* deleteJob for each id of a 'deleted' list
deleteJobs(t, ids) == {r \in t : r.id \notin ids}

----------------------------------------------------------------------------
(* backend: services/jobs.ts, routes/sync.ts *)

ServerRows(sv, id) == {r \in sv : r.id = id}

rowToJob(row) == Job(row.id, row.status, row.version)

\* the UPDATE matching on id alone
updateJobRows_AnyVersion(sv, jobId, status, expectedVersion, now) ==
    {IF r.id = jobId
        THEN [r EXCEPT !.status = IF status = UNDEFINED THEN r.status ELSE status,
                       !.version = r.version + 1,
                       !.updated_at = now]
        ELSE r : r \in sv}

\* updateJob: UPDATE jobs SET ..., version = version + 1, updated_at = now
\*            WHERE id = ? AND version = ?
updateJobRows(sv, jobId, status, expectedVersion, now) ==
    {IF r.id = jobId /\ r.version = expectedVersion
        THEN [r EXCEPT !.status = IF status = UNDEFINED THEN r.status ELSE status,
                       !.version = r.version + 1,
                       !.updated_at = now]
        ELSE r : r \in sv}

\* outcome of updateJob: the job, NotFoundError (404) or ConflictError (409)
updateJobOutcome(sv, jobId, expectedVersion) ==
    IF \E r \in sv : r.id = jobId /\ r.version = expectedVersion THEN "ok"
    ELSE IF ServerRows(sv, jobId) = {} THEN "not_found"
    ELSE "conflict"

\* POST /sync/pull: jobs with updated_at > lastSync
pullUpdated(sv, lastSync) == {rowToJob(r) : r \in {x \in sv : x.updated_at > lastSync}}

----------------------------------------------------------------------------
(* state shared by all specifications *)

\* what one invocation of the wrapped call settles with
Settled(ok, axios, status) == [ok |-> ok, axios |-> axios, status |-> status]
NoError == Settled(TRUE, FALSE, 0)

IdleBackoff == [pc |-> "idle", maxRetries |-> 0, baseDelay |-> 0, attempt |-> 0,
                calls |-> <<>>, delays |-> <<>>, lastError |-> NoError]
\* a handler's updateJob call: its arguments, and what it returned or threw
\* raced: another handler's call for the same job and expectedVersion was in
\* flight when this one was entered
IdleHandler == [pc |-> "idle", jobId |-> "", status |-> UNDEFINED, expectedVersion |-> 0,
                code |-> "", statusCode |-> 0, currentVersion |-> NULL, version |-> NULL,
                raced |-> FALSE]

IdleEnq == [pc |-> "idle"]
IdleCycle == [pc |-> "idle", batch |-> <<>>, okJobs |-> {}]
\* the startProcessing invocations that can be in progress at once
PhotoProcs == {1, 2}

\* a startProcessing invocation that is not running
IdleProc == [pc |-> "idle", id |-> 0, retryCount |-> 0]

\* usePhotoUploadStore as created: queue [], isProcessing false,
\* currentUploadId null (0), and no startProcessing in progress
IdlePhoto == [queue |-> <<>>, isProcessing |-> FALSE, currentUploadId |-> 0,
              proc |-> [i \in PhotoProcs |-> IdleProc]]


\* the observation a step leaves behind; pull (the outcome of the running
\* cycle's pull) lasts until the cycle has ended, since (the cursor the cycle
\* started with) until then or until a pull response has replaced the cursor
H(op, id) == [op |-> op, id |-> id, conflicted |-> hist.conflicted, replaced |-> {},
              job |-> "", ver |-> 0, dirty |-> FALSE, ended |-> FALSE, okJobs |-> {},
              since |-> IF hist.ended THEN NULL ELSE hist.since,
              pull |-> IF hist.ended THEN "none" ELSE hist.pull, left |-> 0,
              items |-> <<>>, n |-> 0, etype |-> ""]

Init ==
    /\ queue = {}
    /\ nextId = 1
    /\ enq = [p \in Callers |-> IdleEnq]
    /\ deviceClock = 1
    /\ localJobs = {}
    /\ memJobs = {}
    /\ server = {[id |-> "job-1", status |-> "pending", version |-> 1, updated_at |-> 1]}
    /\ serverClock = 1
    /\ networkStatus = "unknown"
    /\ isSyncing = FALSE
    /\ lastSyncedAt = NULL
    /\ pendingCount = 0
    /\ conflicts = {}
    /\ backoff = IdleBackoff
    /\ photo = IdlePhoto
    /\ svc = [p \in Handlers |-> IdleHandler]
    /\ error = NULLTEXT
    /\ cycle = [c \in Cycles |-> IdleCycle]
    /\ hist = [op |-> "init", id |-> 0, conflicted |-> {}, replaced |-> {},
               job |-> "", ver |-> 0, dirty |-> FALSE, ended |-> FALSE, okJobs |-> {},
               since |-> NULL, pull |-> "none", left |-> 0, items |-> <<>>, n |-> 0,
               etype |-> ""]

\* Date.now() / strftime('%s','now') advances
Tick ==
    /\ deviceClock < MaxClock
    /\ deviceClock' = deviceClock + 1
    /\ hist' = H("step", 0)
    /\ UNCHANGED <<queue, nextId, enq, localJobs, memJobs, server, serverClock,
                   networkStatus, isSyncing, lastSyncedAt, pendingCount,
                   conflicts, backoff, photo, svc, error, cycle>>

----------------------------------------------------------------------------
(* SpecQueue: the queue repository called one call after the other *)

\* the argument tuples the calls are drawn from: <<action, payload, filePath, priority>>
EnqueueVariants ==
    {<<"update", [status |-> "in_progress", version |-> 1], UNDEFINED, 0>>,
     <<"create", [value |-> "test"], "photo.jpg", 10>>}

\* the entities the calls are drawn from: <<entityType, entityId>>
QueueEntities ==
    {<<"job", "job-1">>, <<"job", "job-2">>, <<"checklist_response", "job-1">>}

nonQueueVars == <<enq, localJobs, memJobs, server, serverClock, networkStatus,
                  isSyncing, lastSyncedAt, pendingCount, conflicts, backoff, photo, svc, error, cycle>>

\* addToQueue, run to completion
addToQueue(entityType, entityId, action, payload, filePath, priority) ==
    /\ nextId <= MaxQueueCalls
    /\ queue' = InsertRow(DeleteForEntity(queue, entityType, entityId), nextId,
                          entityType, entityId, action, payload, filePath,
                          priority, deviceClock)
    /\ nextId' = nextId + 1
    /\ hist' = [H("addToQueue", nextId) EXCEPT
                  !.replaced = {[retry_count |-> r.retry_count, priority |-> r.priority] :
                                  r \in queue \ DeleteForEntity(queue, entityType, entityId)}]
    /\ UNCHANGED deviceClock
    /\ UNCHANGED nonQueueVars

markItemSuccess(id) ==
    /\ queue' = DeleteById(queue, id)
    /\ hist' = H("queue", 0)
    /\ UNCHANGED <<nextId, deviceClock>>
    /\ UNCHANGED nonQueueVars

markItemFailed(id, err) ==
    /\ \A r \in queue : r.id = id => r.retry_count < RETRY_CAP
    /\ queue' = FailById(queue, id, err)
    /\ hist' = H("queue", 0)
    /\ UNCHANGED <<nextId, deviceClock>>
    /\ UNCHANGED nonQueueVars

removeFromQueue(id) ==
    /\ queue' = RemoveById(queue, id)
    /\ hist' = H("queue", 0)
    /\ UNCHANGED <<nextId, deviceClock>>
    /\ UNCHANGED nonQueueVars

retryFailedItem(id) ==
    /\ queue' = ResetById(queue, id)
    /\ hist' = H("queue", 0)
    /\ UNCHANGED <<nextId, deviceClock>>
    /\ UNCHANGED nonQueueVars

QAddToQueue ==
    \E x \in QueueEntities, v \in EnqueueVariants :
        addToQueue(x[1], x[2], v[1], v[2], v[3], v[4])
QMarkItemSuccess == \E id \in 1..MaxQueueCalls : markItemSuccess(id)
QMarkItemFailed == \E id \in 1..MaxQueueCalls : markItemFailed(id, "Network Error")
QRemoveFromQueue == \E id \in 1..MaxQueueCalls : removeFromQueue(id)
QRetryFailedItem == \E id \in 1..MaxQueueCalls : retryFailedItem(id)

NextQueue ==
    \/ QAddToQueue
    \/ QMarkItemSuccess
    \/ QMarkItemFailed
    \/ QRemoveFromQueue
    \/ QRetryFailedItem

SpecQueue == Init /\ [][NextQueue]_vars

EntityRows(q, t, e) == {r \in q : r.entity_type = t /\ r.entity_id = e}

\* C1: in every state reached by enqueue, markSuccess, markFailed, resetForRetry
\* and removeFromQueue calls the queue holds at most one row per
\* (entityType, entityId); rows of different entities coexist.
C1_AtMostOnePerEntity ==
    \A t \in EntityTypes, e \in JobIds : Cardinality(EntityRows(queue, t, e)) <= 1

\* three entities queued at once: two ids under one type, one id under two types
C1_Witness ==
    /\ EntityRows(queue, "job", "job-1") # {}
    /\ EntityRows(queue, "job", "job-2") # {}
    /\ EntityRows(queue, "checklist_response", "job-1") # {}
    /\ \E r \in queue : r.retry_count > 0

\* C3: an enqueue leaves exactly one row for its entity, carrying that call's
\* action, payload, filePath and priority with retryCount 0 and no lastError,
\* whatever row it replaced.
C3_LastEnqueueWins ==
    [][\A x \in QueueEntities, v \in EnqueueVariants :
          addToQueue(x[1], x[2], v[1], v[2], v[3], v[4]) =>
              /\ Cardinality(EntityRows(queue', x[1], x[2])) = 1
              /\ \A r \in EntityRows(queue', x[1], x[2]) :
                    /\ rowToItem(r).action = v[1]
                    /\ rowToItem(r).payload = v[2]
                    /\ rowToItem(r).filePath = v[3]
                    /\ rowToItem(r).priority = v[4]
                    /\ rowToItem(r).retryCount = 0
                    /\ rowToItem(r).lastError = UNDEFINED
                    /\ rowToItem(r).id = nextId]_vars

\* an enqueue has replaced a failed row of priority 0 by a row of priority 10
C3_Witness ==
    /\ hist.op = "addToQueue"
    /\ \E old \in hist.replaced : old.retry_count > 0 /\ old.priority = 0
    /\ \E r \in queue : r.id = hist.id /\ r.priority = 10

----------------------------------------------------------------------------
(* SpecEnqueue: addToQueue calls of several callers, interleaved at their awaits *)

\* addToQueue up to its first await: the DELETE is executed
AddToQueueDelete(p, entityType, entityId, action, payload, filePath, priority) ==
    /\ enq[p].pc = "idle"
    /\ nextId + Cardinality({x \in Callers : enq[x].pc # "idle"}) <= MaxItems
    /\ queue' = DeleteForEntity(queue, entityType, entityId)
    /\ enq' = [enq EXCEPT ![p] = [pc |-> "deleted",
                                  entityType |-> entityType,
                                  entityId |-> entityId,
                                  action |-> action,
                                  payload |-> payload,
                                  filePath |-> filePath,
                                  priority |-> priority]]

\* addToQueue after the DELETE: the INSERT is executed and the call returns
AddToQueueInsert(p) ==
    /\ enq[p].pc = "deleted"
    /\ queue' = InsertRow(queue, nextId, enq[p].entityType, enq[p].entityId,
                          enq[p].action, enq[p].payload, enq[p].filePath,
                          enq[p].priority, deviceClock)
    /\ nextId' = nextId + 1
    /\ enq' = [enq EXCEPT ![p] = IdleEnq]
    /\ hist' = H("step", 0)
    /\ UNCHANGED <<deviceClock, localJobs, memJobs, server, serverClock,
                   networkStatus, isSyncing, lastSyncedAt, pendingCount,
                   conflicts, backoff, photo, svc, error, cycle>>

EAddToQueueDelete(p) ==
    /\ \E x \in QueueEntities, v \in EnqueueVariants :
          AddToQueueDelete(p, x[1], x[2], v[1], v[2], v[3], v[4])
    /\ hist' = H("step", 0)
    /\ UNCHANGED <<nextId, deviceClock, localJobs, memJobs, server, serverClock,
                   networkStatus, isSyncing, lastSyncedAt, pendingCount,
                   conflicts, backoff, photo, svc, error, cycle>>

NextEnqueue ==
    \/ \E p \in Callers : EAddToQueueDelete(p)
    \/ \E p \in Callers : AddToQueueInsert(p)
    \/ Tick

SpecEnqueue == Init /\ [][NextEnqueue]_vars

\* C2: enqueue is atomic with respect to concurrent enqueues: once the
\* interleaved addToQueue calls have returned, the queue holds at most one row
\* per (entityType, entityId).
C2_AtomicEnqueue ==
    (\A p \in Callers : enq[p].pc = "idle") =>
        \A t \in EntityTypes, e \in JobIds : Cardinality(EntityRows(queue, t, e)) <= 1

----------------------------------------------------------------------------
(* SpecJobs: the job repository called one call after the other *)

nonJobVars == <<queue, nextId, enq, deviceClock, memJobs, server, serverClock,
                networkStatus, isSyncing, lastSyncedAt, pendingCount, conflicts, backoff, photo, svc,
                error, cycle>>

\* the server_version of the record id as the comparison of saveJob reads it
\* (server_version ?? 0), 0 when there is no record
StoredServerVersion(t, id) ==
    IF JobRows(t, id) = {} THEN 0
    ELSE LET r == CHOOSE x \in JobRows(t, id) : TRUE
         IN IF r.server_version = NULL THEN 0 ELSE r.server_version

IsDirty(t, id) == \E r \in JobRows(t, id) : r.is_dirty = 1

LocalVersionBelowCap(t, id) == \A r \in JobRows(t, id) : r.local_version < MaxLocalVersion

\* jobsRepo.saveJob(job, fromServer)
SaveJobCall(job, fromServer) ==
    /\ fromServer \/ LocalVersionBelowCap(localJobs, job.id)
    /\ localJobs' = saveJob(localJobs, job, fromServer, deviceClock)
    /\ hist' = [H(IF fromServer THEN "saveJob:server" ELSE "saveJob:local", 0)
                  EXCEPT !.job = job.id, !.ver = job.version,
                         !.dirty = IsDirty(localJobs, job.id),
                         !.n = StoredServerVersion(localJobs, job.id)]
    /\ UNCHANGED nonJobVars

\* jobsRepo.saveJobs(jobs, true)
SaveJobsCall(jobs) ==
    /\ localJobs' = saveJobs(localJobs, jobs, TRUE, deviceClock)
    /\ hist' = H("saveJobs:server", 0)
    /\ UNCHANGED nonJobVars

\* jobsRepo.deleteJob(jobId)
DeleteJobCall(jobId) ==
    /\ localJobs' = deleteJob(localJobs, jobId)
    /\ hist' = [H("deleteJob", 0) EXCEPT !.job = jobId]
    /\ UNCHANGED nonJobVars

JobInputs == {Job(j, s, v) : j \in JobIds, s \in {"in_progress", "completed"},
                             v \in 1..MaxVersion}

\* lists of jobs as a response carries them: one entry per job id
JobLists == {{Job(j, "completed", f[j]) : j \in JobIds} : f \in [JobIds -> 1..MaxVersion]}

NextJobs ==
    \/ \E job \in JobInputs, fromServer \in BOOLEAN : SaveJobCall(job, fromServer)
    \/ \E jobs \in JobLists : SaveJobsCall(jobs)
    \/ \E j \in JobIds : DeleteJobCall(j)

SpecJobs == Init /\ [][NextJobs]_vars

ServerVersionOr0(r) == IF r.server_version = NULL THEN 0 ELSE r.server_version

\* what C5 says of one incoming job and the record it meets
DirtyWins(t, t2, job) ==
    \A r \in JobRows(t, job.id) :
        r.is_dirty = 1 =>
            IF job.version <= ServerVersionOr0(r)
            THEN JobRows(t2, job.id) = {r}
            ELSE /\ JobRows(t2, job.id) # {}
                 /\ \A n \in JobRows(t2, job.id) :
                       /\ n.data = JsonStringify(job)
                       /\ n.server_version = job.version
                       /\ n.is_dirty = 0

\* C5: a server-origin upsert (saveJob / saveJobs with fromServer = true) that
\* meets a dirty record of serverVersion v (null as 0) leaves the record
\* unchanged when the incoming version is <= v, and otherwise replaces the
\* data, sets serverVersion to the incoming version and clears isDirty.
C5_DirtyWinsMerge ==
    [][/\ hist'.op = "saveJob:server" =>
             \A job \in JobInputs :
                 (job.id = hist'.job /\ job.version = hist'.ver /\ SaveJobCall(job, TRUE))
                     => DirtyWins(localJobs, localJobs', job)
       /\ hist'.op = "saveJobs:server" =>
             \A jobs \in JobLists :
                 SaveJobsCall(jobs) => \A job \in jobs : DirtyWins(localJobs, localJobs', job)]_vars

\* a server-origin upsert has met a dirty record of the same version and left it dirty
C5_Witness ==
    /\ hist.op = "saveJob:server"
    /\ hist.dirty
    /\ \E r \in JobRows(localJobs, hist.job) :
          r.is_dirty = 1 /\ r.server_version = hist.ver

\* the effect of a local saveJob(job) on the table t, giving t2
LocalSaveEffect(t, t2, job) ==
    /\ \A r \in t : r.id # job.id => r \in t2
    /\ \A n \in t2 : n.id # job.id => n \in t
    /\ Cardinality(JobRows(t2, job.id)) = 1
    /\ \A n \in JobRows(t2, job.id) :
          /\ n.is_dirty = 1
          /\ n.data = JsonStringify(job)
          /\ IF JobRows(t, job.id) = {}
             THEN n.server_version = NULL
             ELSE \A r \in JobRows(t, job.id) :
                     /\ n.local_version = r.local_version + 1
                     /\ n.server_version = r.server_version
                     /\ n.last_synced_at = r.last_synced_at

\* C31: a local saveJob of an existing record sets is_dirty, adds exactly 1 to
\* local_version, replaces the data and leaves server_version and
\* last_synced_at as they were; one that creates the record leaves
\* server_version null and is_dirty set; no other record changes.
C31_LocalMutation ==
    [][hist'.op = "saveJob:local" =>
          \A job \in JobInputs :
              (job.id = hist'.job /\ job.version = hist'.ver /\ SaveJobCall(job, FALSE))
                  => LocalSaveEffect(localJobs, localJobs', job)]_vars

\* a record that came from the server has been mutated locally: dirty, at
\* local_version 2, its server_version and last_synced_at still set
C31_Witness ==
    /\ hist.op = "saveJob:local"
    /\ ~hist.dirty
    /\ \E r \in JobRows(localJobs, hist.job) :
          /\ r.is_dirty = 1
          /\ r.local_version = 2
          /\ r.server_version # NULL
          /\ r.last_synced_at # NULL
          /\ r.data = JsonStringify(Job(hist.job, "completed", hist.ver))

\* the effect on t, giving t2, of a server-origin upsert of job that meets no
\* dirty record
CleanUpsertEffect(t, t2, job) ==
    ~IsDirty(t, job.id) =>
        /\ Cardinality(JobRows(t2, job.id)) = 1
        /\ \A n \in JobRows(t2, job.id) :
              /\ n.data = JsonStringify(job)
              /\ n.server_version = job.version
              /\ n.is_dirty = 0

\* C32: a server-origin upsert (saveJob / saveJobs with fromServer = true) for
\* a record that is not dirty replaces the data, sets server_version to the
\* incoming version and leaves is_dirty 0, whatever the two versions are: also
\* when the incoming version is lower than the stored server_version.
C32_CleanUpsertUnconditional ==
    [][/\ hist'.op = "saveJob:server" =>
             \A job \in JobInputs :
                 (job.id = hist'.job /\ job.version = hist'.ver /\ SaveJobCall(job, TRUE))
                     => CleanUpsertEffect(localJobs, localJobs', job)
       /\ hist'.op = "saveJobs:server" =>
             \A jobs \in JobLists :
                 SaveJobsCall(jobs) =>
                     \A job \in jobs : CleanUpsertEffect(localJobs, localJobs', job)]_vars

\* a record that was not dirty and stored a higher server_version has taken
\* the lower incoming version
C32_Witness ==
    /\ hist.op = "saveJob:server"
    /\ ~hist.dirty
    /\ hist.n > hist.ver
    /\ \E r \in JobRows(localJobs, hist.job) :
          /\ r.server_version = hist.ver
          /\ r.is_dirty = 0
          /\ r.data = JsonStringify(Job(hist.job, "in_progress", hist.ver))



----------------------------------------------------------------------------
(* Spec: the sync store, the job store and the checklist store against the backend *)

AssignedJobs == {r.id : r \in server}

\* processQueueItem: the request an item is turned into
RequestOf(item) ==
    IF item.entityType = "job" /\ item.action = "update"
    THEN [kind |-> "patch", jobId |-> item.entityId,
          status |-> item.payload.status, version |-> item.payload.version]
    ELSE IF item.entityType = "checklist_response" /\ item.action = "update"
    THEN IF item.payload.completeJob /\ item.payload.version # 0
         THEN [kind |-> "complete", jobId |-> item.entityId,
               status |-> "completed", version |-> item.payload.version]
         ELSE [kind |-> "batch", jobId |-> item.entityId,
               status |-> "", version |-> 0]
    ELSE [kind |-> "none", jobId |-> item.entityId, status |-> "", version |-> 0]

\* what the backend answers to a request: PATCH /jobs/:id and
\* POST /jobs/:id/complete go through updateJob
ServerOutcome(sv, req) ==
    IF req.kind \in {"patch", "complete"}
    THEN updateJobOutcome(sv, req.jobId, req.version)
    ELSE "ok"

ServerApply(sv, req, now) ==
    IF req.kind \in {"patch", "complete"}
    THEN updateJobRows(sv, req.jobId, req.status, req.version, now)
    ELSE sv

VersionBelowCap(sv, jobId) == \A r \in ServerRows(sv, jobId) : r.version < MaxVersion

ActiveCycles == {c \in Cycles : cycle[c].pc # "idle"}

FreeCycle == CHOOSE c \in Cycles : cycle[c].pc = "idle" /\ \A d \in Cycles : cycle[d].pc = "idle" => c <= d

\* startSync up to its first await: the guard, set({isSyncing: true, error: null}),
\* and the pull request of pullChanges sent
BeginCycle ==
    /\ \E c \in Cycles : cycle[c].pc = "idle"
    /\ isSyncing' = TRUE
    /\ error' = NULLTEXT
    /\ cycle' = [cycle EXCEPT ![FreeCycle] = [IdleCycle EXCEPT !.pc = "pulling"]]

\* the guard of startSync without its networkStatus test
StartSyncBlocked_NoNetworkTest == isSyncing

\* the guard of startSync without its isSyncing test
StartSyncBlocked_NoSyncingTest == networkStatus # "online"

\* the guard of startSync
StartSyncBlocked == networkStatus # "online" \/ isSyncing

\* startSync()
StartSync ==
    /\ IF StartSyncBlocked
       THEN /\ hist' = H(IF isSyncing THEN "startSync:ignored" ELSE "step", 0)
            /\ UNCHANGED <<isSyncing, error, cycle>>
       ELSE /\ BeginCycle
            /\ hist' = [H("step", 0) EXCEPT !.since = lastSyncedAt]
    /\ UNCHANGED <<queue, nextId, enq, deviceClock, localJobs, memJobs, server,
                   serverClock, networkStatus, lastSyncedAt, pendingCount, conflicts, backoff, photo, svc>>

\* the NetInfo.addEventListener callback
NetInfoChange(newStatus) ==
    /\ networkStatus # newStatus
    /\ networkStatus' = newStatus
    /\ IF newStatus = "online" /\ ~isSyncing
       THEN /\ BeginCycle
            /\ hist' = [H("step", 0) EXCEPT !.since = lastSyncedAt]
       ELSE /\ hist' = H("step", 0)
            /\ UNCHANGED <<isSyncing, error, cycle>>
    /\ UNCHANGED <<queue, nextId, enq, deviceClock, localJobs, memJobs, server,
                   serverClock, lastSyncedAt, pendingCount, conflicts, backoff, photo, svc>>

\* the NetInfo.fetch().then callback of initializeSync
NetInfoFetch(status) ==
    /\ networkStatus = "unknown"
    /\ networkStatus' = status
    /\ IF status = "online" /\ ~isSyncing
       THEN /\ BeginCycle
            /\ hist' = [H("step", 0) EXCEPT !.since = lastSyncedAt]
       ELSE /\ hist' = H("step", 0)
            /\ UNCHANGED <<isSyncing, error, cycle>>
    /\ UNCHANGED <<queue, nextId, enq, deviceClock, localJobs, memJobs, server,
                   serverClock, lastSyncedAt, pendingCount, conflicts, backoff, photo, svc>>

\* pullChanges: the response of POST /sync/pull is applied
PullSuccess(c) ==
    /\ cycle[c].pc = "pulling"
    /\ LET lastSync == IF lastSyncedAt = NULL THEN 0 ELSE lastSyncedAt
           updated == pullUpdated(server, lastSync)
           deleted == {}
       IN localJobs' = deleteJobs(saveJobs(localJobs, updated, TRUE, deviceClock), deleted)
    /\ lastSyncedAt' = serverClock
    /\ cycle' = [cycle EXCEPT ![c].pc = "push_start"]
    /\ hist' = [H("pull:applied", 0) EXCEPT !.pull = "applied", !.since = NULL]
    /\ UNCHANGED <<queue, nextId, enq, deviceClock, memJobs, server, serverClock,
                   networkStatus, isSyncing, pendingCount, conflicts, backoff, photo, svc, error>>

\* pullChanges: every attempt of retryWithBackoff is answered 429 and
\* pullChanges swallows the error
PullRateLimited(c) ==
    /\ cycle[c].pc = "pulling"
    /\ cycle' = [cycle EXCEPT ![c].pc = "push_start"]
    /\ hist' = [H("step", 0) EXCEPT !.pull = "rate_limited"]
    /\ UNCHANGED <<queue, nextId, enq, deviceClock, localJobs, memJobs, server,
                   serverClock, networkStatus, isSyncing, lastSyncedAt,
                   pendingCount, conflicts, backoff, photo, svc, error>>

\* pullChanges swallowing every error the way it swallows the rate limit
PullFailed_Swallowed(c) ==
    /\ cycle[c].pc = "pulling"
    /\ cycle' = [cycle EXCEPT ![c].pc = "push_start"]
    /\ hist' = [H("step", 0) EXCEPT !.pull = "failed"]
    /\ UNCHANGED <<queue, nextId, enq, deviceClock, localJobs, memJobs, server,
                   serverClock, networkStatus, isSyncing, lastSyncedAt,
                   pendingCount, conflicts, backoff, photo, svc, error>>

\* pullChanges: the request fails otherwise; startSync catches
PullFailed(c) ==
    /\ cycle[c].pc = "pulling"
    /\ cycle' = [cycle EXCEPT ![c] = IdleCycle]
    /\ isSyncing' = FALSE
    /\ error' = "Network Error"
    /\ hist' = [H("step", 0) EXCEPT !.ended = TRUE, !.pull = "failed"]
    /\ UNCHANGED <<queue, nextId, enq, deviceClock, localJobs, memJobs, server,
                   serverClock, networkStatus, lastSyncedAt, pendingCount, conflicts, backoff, photo, svc>>

\* the end of pushChanges and of startSync: updatePendingCount,
\* set({isSyncing: false, lastSyncedAt: new Date().toISOString()})
FinishCycle(c, q) ==
    /\ cycle' = [cycle EXCEPT ![c] = IdleCycle]
    /\ isSyncing' = FALSE
    /\ lastSyncedAt' = deviceClock
    /\ pendingCount' = getQueueCount(q)

\* the loop stepping over the item after the one just handled
AfterItem_SkipNext(c, q, stop, okJobs) ==
    IF stop \/ Len(cycle[c].batch) <= 2
    THEN FinishCycle(c, q)
    ELSE /\ cycle' = [cycle EXCEPT ![c].batch = Tail(Tail(cycle[c].batch)),
                                   ![c].okJobs = okJobs]
         /\ UNCHANGED <<isSyncing, lastSyncedAt, pendingCount>>

\* pushChanges after one item: the next item, or the end of the loop
AfterItem(c, q, stop, okJobs) ==
    IF stop \/ Len(cycle[c].batch) = 1
    THEN FinishCycle(c, q)
    ELSE /\ cycle' = [cycle EXCEPT ![c].batch = Tail(cycle[c].batch),
                                   ![c].okJobs = okJobs]
         /\ UNCHANGED <<isSyncing, lastSyncedAt, pendingCount>>

Ended(c, stop) == stop \/ Len(cycle[c].batch) = 1

\* pushChanges: getNextQueueItems(10)
PushBegin(c) ==
    /\ cycle[c].pc = "push_start"
    /\ \E items \in getNextQueueItems(queue, BATCH_LIMIT) :
          IF items = <<>>
          THEN /\ FinishCycle(c, queue)
               /\ hist' = [H("step", 0) EXCEPT !.ended = TRUE]
          ELSE /\ cycle' = [cycle EXCEPT ![c].pc = "pushing", ![c].batch = items]
               /\ hist' = H("step", 0)
               /\ UNCHANGED <<isSyncing, lastSyncedAt, pendingCount>>
    /\ UNCHANGED <<queue, nextId, enq, deviceClock, localJobs, memJobs, server,
                   serverClock, networkStatus, conflicts, backoff, photo, svc, error>>

CurrentItem(c) == Head(cycle[c].batch)

\* the success branch deleting the rows of the item's entity
PushItemSuccess_ByEntity(c) ==
    /\ cycle[c].pc = "pushing"
    /\ LET item == CurrentItem(c)
           req == RequestOf(item)
           okJobs == IF item.entityType = "job"
                     THEN cycle[c].okJobs \cup {item.entityId} ELSE cycle[c].okJobs
       IN /\ ServerOutcome(server, req) = "ok"
          /\ req.kind \in {"patch", "complete"} => VersionBelowCap(server, req.jobId)
          /\ server' = ServerApply(server, req, serverClock)
          /\ queue' = DeleteForEntity(queue, item.entityType, item.entityId)
          /\ AfterItem(c, queue', FALSE, okJobs)
          /\ hist' = [H("push:success", item.id) EXCEPT
                        !.job = item.entityId,
                        !.etype = item.entityType,
                        !.ended = Ended(c, FALSE),
                        !.okJobs = IF Ended(c, FALSE) THEN okJobs ELSE {}]
    /\ UNCHANGED <<nextId, enq, deviceClock, localJobs, memJobs, serverClock,
                   networkStatus, conflicts, backoff, photo, svc, error>>

\* pushChanges: processQueueItem succeeds, markItemSuccess
PushItemSuccess(c) ==
    /\ cycle[c].pc = "pushing"
    /\ LET item == CurrentItem(c)
           req == RequestOf(item)
           okJobs == IF item.entityType = "job"
                     THEN cycle[c].okJobs \cup {item.entityId} ELSE cycle[c].okJobs
       IN /\ ServerOutcome(server, req) = "ok"
          /\ req.kind \in {"patch", "complete"} => VersionBelowCap(server, req.jobId)
          /\ server' = ServerApply(server, req, serverClock)
          /\ queue' = DeleteById(queue, item.id)
          /\ AfterItem(c, queue', FALSE, okJobs)
          /\ hist' = [H("push:success", item.id) EXCEPT
                        !.job = item.entityId,
                        !.etype = item.entityType,
                        !.ended = Ended(c, FALSE),
                        !.okJobs = IF Ended(c, FALSE) THEN okJobs ELSE {}]
    /\ UNCHANGED <<nextId, enq, deviceClock, localJobs, memJobs, serverClock,
                   networkStatus, conflicts, backoff, photo, svc, error>>

\* handleConflictServerWins: GET /jobs/:id and saveJob(serverJob, true);
\* a failure of either is caught
handleConflictServerWins(t, item, fetchOk, now) ==
    IF item.entityType = "job" /\ fetchOk /\ ServerRows(server, item.entityId) # {}
    THEN saveJob(t, rowToJob(CHOOSE r \in ServerRows(server, item.entityId) : TRUE),
                 TRUE, now)
    ELSE t

\* the conflict branch calling markItemFailed like the last branch
ConflictQueueUpdate_MarkFailed(q, id) == FailById(q, id, "Request failed with status code 409")

\* the queue update of the conflict branch of pushChanges
ConflictQueueUpdate(q, id) == RemoveById(q, id)

\* the conflict branch keeping a SyncConflict record for manual resolution
\* next to the server-wins resolution
PushItemConflict_Records(c, fetchOk) ==
    /\ cycle[c].pc = "pushing"
    /\ LET item == CurrentItem(c)
           req == RequestOf(item)
       IN /\ ServerOutcome(server, req) = "conflict"
          /\ localJobs' = handleConflictServerWins(localJobs, item, fetchOk, deviceClock)
          /\ queue' = ConflictQueueUpdate(queue, item.id)
          /\ conflicts' = conflicts \cup
                {[id |-> item.id, entityType |-> item.entityType,
                  entityId |-> item.entityId, localData |-> item.payload,
                  serverData |-> item.payload]}
          /\ AfterItem(c, queue', FALSE, cycle[c].okJobs)
          /\ hist' = [H(IF fetchOk /\ item.entityType = "job"
                           THEN "push:conflict:fetched" ELSE "push:conflict:nofetch",
                        item.id) EXCEPT
                        !.conflicted = hist.conflicted \cup {item.id},
                        !.job = item.entityId,
                        !.etype = item.entityType,
                        !.ended = Ended(c, FALSE),
                        !.okJobs = IF Ended(c, FALSE) THEN cycle[c].okJobs ELSE {}]
    /\ UNCHANGED <<nextId, enq, deviceClock, memJobs, server, serverClock,
                   networkStatus, backoff, photo, svc, error>>

\* pushChanges: the request is answered 409 / VERSION_CONFLICT
PushItemConflict(c, fetchOk) ==
    /\ cycle[c].pc = "pushing"
    /\ LET item == CurrentItem(c)
           req == RequestOf(item)
       IN /\ ServerOutcome(server, req) = "conflict"
          /\ localJobs' = handleConflictServerWins(localJobs, item, fetchOk, deviceClock)
          /\ queue' = ConflictQueueUpdate(queue, item.id)
          /\ AfterItem(c, queue', FALSE, cycle[c].okJobs)
          /\ hist' = [H(IF fetchOk /\ item.entityType = "job"
                           THEN "push:conflict:fetched" ELSE "push:conflict:nofetch",
                        item.id) EXCEPT
                        !.conflicted = hist.conflicted \cup {item.id},
                        !.job = item.entityId,
                        !.etype = item.entityType,
                        !.ended = Ended(c, FALSE),
                        !.okJobs = IF Ended(c, FALSE) THEN cycle[c].okJobs ELSE {}]
    /\ UNCHANGED <<nextId, enq, deviceClock, memJobs, server, serverClock,
                   networkStatus, conflicts, backoff, photo, svc, error>>

\* the rate-limit branch going on to the next item instead of breaking
PushItemRateLimited_Continue(c) ==
    /\ cycle[c].pc = "pushing"
    /\ RequestOf(CurrentItem(c)).kind # "none"
    /\ AfterItem(c, queue, FALSE, cycle[c].okJobs)
    /\ hist' = [H("push:rate_limited", CurrentItem(c).id) EXCEPT
                  !.ended = Ended(c, FALSE), !.okJobs = cycle[c].okJobs,
                  !.left = Len(cycle[c].batch)]
    /\ UNCHANGED <<queue, nextId, enq, deviceClock, localJobs, memJobs, server,
                   serverClock, networkStatus, conflicts, backoff, photo, svc, error>>

\* pushChanges: every attempt of retryWithBackoff is answered 429 and the
\* loop breaks
PushItemRateLimited(c) ==
    /\ cycle[c].pc = "pushing"
    /\ RequestOf(CurrentItem(c)).kind # "none"
    /\ FinishCycle(c, queue)
    /\ hist' = [H("push:rate_limited", CurrentItem(c).id) EXCEPT
                  !.ended = TRUE, !.okJobs = cycle[c].okJobs,
                  !.left = Len(cycle[c].batch)]
    /\ UNCHANGED <<queue, nextId, enq, deviceClock, localJobs, memJobs, server,
                   serverClock, networkStatus, conflicts, backoff, photo, svc, error>>

\* pushChanges: the request fails otherwise (no answer, 404, 5xx), markItemFailed
PushItemFailed(c) ==
    /\ cycle[c].pc = "pushing"
    /\ LET item == CurrentItem(c)
       IN /\ RequestOf(item).kind # "none"
          /\ queue' = FailById(queue, item.id, "Network Error")
          /\ AfterItem(c, queue', FALSE, cycle[c].okJobs)
          /\ hist' = [H("step", 0) EXCEPT
                        !.ended = Ended(c, FALSE),
                        !.okJobs = IF Ended(c, FALSE) THEN cycle[c].okJobs ELSE {}]
    /\ UNCHANGED <<nextId, enq, deviceClock, localJobs, memJobs, server,
                   serverClock, networkStatus, conflicts, backoff, photo, svc, error>>

MemJob(jobId) == CHOOSE j \in memJobs : j.id = jobId

\* jobsStore.fetchJobs: the list is fetched, cached and shown
FetchJobs ==
    /\ localJobs' = saveJobs(localJobs, {rowToJob(r) : r \in server}, TRUE, deviceClock)
    /\ memJobs' = {rowToJob(r) : r \in server}
    /\ hist' = H("step", 0)
    /\ UNCHANGED <<queue, nextId, enq, deviceClock, server, serverClock,
                   networkStatus, isSyncing, lastSyncedAt, pendingCount,
                   conflicts, backoff, photo, svc, error, cycle>>

\* jobsStore.updateJobStatus / startJob: the request fails and the update is
\* saved locally and queued (addToQueue up to its DELETE)
UpdateJobStatusOffline(p, jobId, status) ==
    /\ \E j \in memJobs : j.id = jobId
    /\ LocalVersionBelowCap(localJobs, jobId)
    /\ LET job == MemJob(jobId)
           updatedJob == [job EXCEPT !.status = status]
       IN /\ localJobs' = saveJob(localJobs, updatedJob, FALSE, deviceClock)
          /\ memJobs' = (memJobs \ {job}) \cup {updatedJob}
          /\ AddToQueueDelete(p, "job", jobId, "update",
                              [status |-> status, version |-> job.version], UNDEFINED, 0)
    /\ hist' = H("step", 0)
    /\ UNCHANGED <<nextId, deviceClock, server, serverClock, networkStatus,
                   isSyncing, lastSyncedAt, pendingCount, conflicts, backoff, photo, svc, error, cycle>>

\* checklistStore.saveDraft: the request fails and the draft is queued
SaveDraftOffline(p, jobId) ==
    /\ AddToQueueDelete(p, "checklist_response", jobId, "update",
                        [responses |-> "draft", completeJob |-> FALSE, version |-> 0],
                        UNDEFINED, 5)
    /\ hist' = H("step", 0)
    /\ UNCHANGED <<nextId, deviceClock, localJobs, memJobs, server, serverClock,
                   networkStatus, isSyncing, lastSyncedAt, pendingCount,
                   conflicts, backoff, photo, svc, error, cycle>>

\* checklistStore.submitChecklist: the request fails and the submission is queued
SubmitChecklistOffline(p, jobId) ==
    /\ \E j \in memJobs : j.id = jobId
    /\ AddToQueueDelete(p, "checklist_response", jobId, "update",
                        [responses |-> "final", completeJob |-> TRUE,
                         version |-> MemJob(jobId).version],
                        UNDEFINED, 10)
    /\ hist' = H("step", 0)
    /\ UNCHANGED <<nextId, deviceClock, localJobs, memJobs, server, serverClock,
                   networkStatus, isSyncing, lastSyncedAt, pendingCount,
                   conflicts, backoff, photo, svc, error, cycle>>

\* another client's PATCH /jobs/:id is applied by the backend
ServerEdit(jobId) ==
    /\ VersionBelowCap(server, jobId)
    /\ \E r \in ServerRows(server, jobId) :
          server' = updateJobRows(server, jobId, r.status, r.version, serverClock)
    /\ hist' = H("step", 0)
    /\ UNCHANGED <<queue, nextId, enq, deviceClock, localJobs, memJobs, serverClock,
                   networkStatus, isSyncing, lastSyncedAt, pendingCount,
                   conflicts, backoff, photo, svc, error, cycle>>

\* the backend clock advances
ServerTick ==
    /\ serverClock < MaxClock
    /\ serverClock' = serverClock + 1
    /\ hist' = H("step", 0)
    /\ UNCHANGED <<queue, nextId, enq, deviceClock, localJobs, memJobs, server,
                   networkStatus, isSyncing, lastSyncedAt, pendingCount,
                   conflicts, backoff, photo, svc, error, cycle>>

Next ==
    \/ StartSync
    \/ \E s \in {"online", "offline"} : NetInfoChange(s)
    \/ \E s \in {"online", "offline"} : NetInfoFetch(s)
    \/ \E c \in Cycles : PullSuccess(c)
    \/ \E c \in Cycles : PullRateLimited(c)
    \/ \E c \in Cycles : PullFailed(c)
    \/ \E c \in Cycles : PushBegin(c)
    \/ \E c \in Cycles : PushItemSuccess(c)
    \/ \E c \in Cycles, fetchOk \in BOOLEAN : PushItemConflict(c, fetchOk)
    \/ \E c \in Cycles : PushItemRateLimited(c)
    \/ \E c \in Cycles : PushItemFailed(c)
    \/ FetchJobs
    \/ \E p \in EngineCallers, j \in AssignedJobs : UpdateJobStatusOffline(p, j, "in_progress")
    \/ \E p \in EngineCallers, j \in AssignedJobs : SaveDraftOffline(p, j)
    \/ \E p \in EngineCallers, j \in AssignedJobs : SubmitChecklistOffline(p, j)
    \/ \E p \in EngineCallers : AddToQueueInsert(p)
    \/ \E j \in AssignedJobs : ServerEdit(j)

Spec == Init /\ [][Next]_vars

progVars == <<queue, nextId, enq, deviceClock, localJobs, memJobs, server,
              serverClock, networkStatus, isSyncing, lastSyncedAt, pendingCount,
              conflicts, backoff, photo, svc, error, cycle>>

\* C4: reconciliation is single-flight: at most one startSync cycle is between
\* its start and its end, and a startSync call that arrives while isSyncing is
\* true changes nothing (no pull, no push, no store update).
C4_SingleFlight ==
    /\ [](Cardinality(ActiveCycles) <= 1)
    /\ [][(isSyncing /\ StartSync) => UNCHANGED progVars]_vars

\* startSync has been called during the push phase of a running cycle and ignored
C4_Witness ==
    /\ hist.op = "startSync:ignored"
    /\ isSyncing
    /\ networkStatus = "online"
    /\ \E c \in Cycles : cycle[c].pc = "pushing"

\* a step in which the current item of the batch is transmitted
Transmits(c) ==
    \/ PushItemSuccess(c)
    \/ \E fetchOk \in BOOLEAN : PushItemConflict(c, fetchOk)
    \/ PushItemRateLimited(c)
    \/ PushItemFailed(c)

\* C6: a push that ends in a version conflict removes the item from the queue
\* in that step, whether the resolver's fetch succeeds or fails, leaves every
\* other row as it was (no retryCount is incremented), and the item's id is in
\* no later state of the queue and is never transmitted again.
C6_ConflictTerminal ==
    /\ [](\A id \in hist.conflicted : \A r \in queue : r.id # id)
    /\ [][\A c \in Cycles :
            cycle[c].pc = "pushing" =>
               /\ \/ queue' = {r \in queue : r.id # CurrentItem(c).id}
                  \/ ~\E fetchOk \in BOOLEAN : PushItemConflict(c, fetchOk)
               /\ \/ CurrentItem(c).id \notin hist.conflicted
                  \/ ~Transmits(c)]_vars

\* an item has met a conflict and left the queue, a push phase is under way
\* after it, and a local record is still dirty
C6_Witness ==
    /\ hist.conflicted # {}
    /\ \E c \in Cycles : cycle[c].pc = "pushing"
    /\ \E r \in localJobs : r.is_dirty = 1

\* C7: after the automatic server-wins resolver has fetched the server's job,
\* the local record holds the server's data, its serverVersion is the server's
\* version and isDirty is false, whatever state the record was in.
C7_ServerWinsApplied ==
    hist.op = "push:conflict:fetched" =>
        \A sr \in ServerRows(server, hist.job) :
            \E r \in JobRows(localJobs, hist.job) :
                /\ r.data = JsonStringify(rowToJob(sr))
                /\ r.server_version = sr.version
                /\ r.is_dirty = 0

\* C8: at the end of a cycle that pushed a job's queued update successfully,
\* the queue holds no item for the job and the job's record is not dirty.
C8_PushedJobClean ==
    (hist.ended /\ hist.okJobs # {}) =>
        \A j \in hist.okJobs :
            /\ EntityRows(queue, "job", j) = {}
            /\ ~IsDirty(localJobs, j)

----------------------------------------------------------------------------
(* SpecClock: the cycle under a device clock and a backend clock that advance
   independently; the only local mutation is the checklist draft *)

NextClock ==
    \/ StartSync
    \/ \E s \in {"online", "offline"} : NetInfoChange(s)
    \/ \E s \in {"online", "offline"} : NetInfoFetch(s)
    \/ \E c \in Cycles : PullSuccess(c)
    \/ \E c \in Cycles : PullRateLimited(c)
    \/ \E c \in Cycles : PullFailed(c)
    \/ \E c \in Cycles : PushBegin(c)
    \/ \E c \in Cycles : PushItemSuccess(c)
    \/ \E c \in Cycles : PushItemRateLimited(c)
    \/ \E c \in Cycles : PushItemFailed(c)
    \/ \E p \in EngineCallers, j \in AssignedJobs : SaveDraftOffline(p, j)
    \/ \E p \in EngineCallers : AddToQueueInsert(p)
    \/ \E j \in AssignedJobs : ServerEdit(j)
    \/ Tick
    \/ ServerTick

SpecClock == Init /\ [][NextClock]_vars

\* C9: the SyncCursor never moves backward: every value assigned to
\* lastSyncedAt is greater than or equal to the value it replaces, for device
\* and backend clocks that each only advance.
C9_CursorMonotone == [][lastSyncedAt' >= lastSyncedAt]_vars

\* C10: the SyncCursor changes only in the step that applies a pull response,
\* and takes the syncedAt the backend reported in it.
C10_CursorOnlyFromPull ==
    [][lastSyncedAt' # lastSyncedAt =>
          /\ \E c \in Cycles : PullSuccess(c)
          /\ lastSyncedAt' = serverClock]_vars

\* C11: a cycle whose pull is still rate-limited after the retries is not
\* failed: the push phase runs, and at the end of the cycle no error is set
\* and the SyncCursor is the one the cycle started with.
C11_RateLimitedPullKeepsCursor ==
    /\ (hist.pull = "rate_limited" /\ ~hist.ended) =>
           \E c \in Cycles : cycle[c].pc \in {"push_start", "pushing"}
    /\ (hist.pull = "rate_limited" /\ hist.ended) =>
           /\ error = NULLTEXT
           /\ lastSyncedAt = hist.since

\* C23: the sinceTimestamp of a pull is never later than the syncedAt of the
\* last pull response applied: a cycle that has applied a pull response leaves
\* the SyncCursor, which the next pull sends, no later than the syncedAt that
\* response stored in it.
C23_PullSinceNotAfterSyncedAt ==
    [][\A c \in Cycles :
          (hist.pull = "applied" /\ cycle[c].pc # "idle" /\ cycle'[c].pc = "idle") =>
              lastSyncedAt' <= lastSyncedAt]_vars

\* C12: the pull of a cycle completes before its first push request is sent;
\* a pull that fails with anything but a rate limit ends the cycle with
\* isSyncing false and error set, nothing is transmitted in that cycle, and
\* the steps of the cycle leave the queue and the SyncCursor as they were
\* before it.
C12_PullFailureAborts ==
    /\ []((hist.pull = "failed" /\ hist.ended) =>
             /\ ~isSyncing
             /\ error # NULLTEXT
             /\ lastSyncedAt = hist.since
             /\ ActiveCycles = {})
    /\ [][\A c \in Cycles :
            /\ PullFailed(c) =>
                   /\ queue' = queue
                   /\ lastSyncedAt' = lastSyncedAt
                   /\ cycle'[c] = IdleCycle
            /\ (cycle[c].pc = "idle" /\ cycle'[c].pc # "idle") =>
                   /\ cycle'[c].pc = "pulling"
                   /\ queue' = queue
                   /\ lastSyncedAt' = lastSyncedAt
            /\ cycle[c].pc = "pushing" =>
                   (hist.pull \in {"applied", "rate_limited"} \/ ~Transmits(c))
            /\ (cycle[c].pc = "pulling" /\ cycle'[c].pc # "pulling") =>
                   hist'.pull \in {"applied", "rate_limited", "failed"}]_vars

\* a cycle has just been aborted by a failed pull while the queue holds an item
\* that failed in an earlier cycle and the cursor has been set before
C12_Witness ==
    /\ hist.pull = "failed"
    /\ hist.ended
    /\ hist.since # NULL
    /\ \E r \in queue : r.retry_count > 0

\* C13: when the push of an item is still rate-limited after the retries the
\* push phase stops at once: the step changes no queue row (the item, the
\* items after it and the items before it stay as they are), the batch is
\* dropped so nothing more is transmitted in the cycle, and the cycle ends
\* with no error set.
C13_RateLimitPause ==
    /\ [](hist.op = "push:rate_limited" =>
             /\ error = NULLTEXT
             /\ ~isSyncing
             /\ ActiveCycles = {})
    /\ [][\A c \in Cycles :
            (cycle[c].pc = "pushing" /\ PushItemRateLimited(c)) =>
                /\ queue' = queue
                /\ cycle'[c] = IdleCycle
                /\ \A d \in Cycles : cycle'[d].pc # "pushing"]_vars

\* the first item of a batch of two has been rate-limited and both items are
\* still in the queue
C13_Witness ==
    /\ hist.op = "push:rate_limited"
    /\ hist.left >= 2
    /\ \E r \in queue : r.id = hist.id
    /\ Cardinality(queue) >= 2

----------------------------------------------------------------------------
(* SpecBatch: the read side of the queue repository and the retry cap *)

\* the addToQueue calls the batches are built from
BatchEnqueues ==
    {<<"job", "job-1", "update", [status |-> "in_progress", version |-> 1], UNDEFINED, 0>>,
     <<"job", "job-2", "update", [status |-> "in_progress", version |-> 1], UNDEFINED, 10>>,
     <<"checklist_response", "job-1", "update", [value |-> "test"], UNDEFINED, 0>>}

\* the limits getNextQueueItems is called with: small ones and the default
Limits == {1, MaxLimit, BATCH_LIMIT}

GetNextQueueItemsCall(limit) ==
    /\ UNCHANGED <<queue, nextId, deviceClock>>
    /\ UNCHANGED nonQueueVars
    /\ \E items \in getNextQueueItems(queue, limit) :
          hist' = [H("getNextQueueItems", 0) EXCEPT !.items = items, !.n = limit]

GetFailedItemsCall ==
    /\ UNCHANGED <<queue, nextId, deviceClock>>
    /\ UNCHANGED nonQueueVars
    /\ \E items \in getFailedItems(queue) :
          hist' = [H("getFailedItems", 0) EXCEPT !.items = items]

GetQueueCountCall ==
    /\ hist' = [H("getQueueCount", 0) EXCEPT !.n = getQueueCount(queue)]
    /\ UNCHANGED <<queue, nextId, deviceClock>>
    /\ UNCHANGED nonQueueVars

\* markItemFailed(id, error) on a stored row, whatever its retry_count
MarkItemFailedCall(id) ==
    /\ \E r \in queue : r.id = id /\ r.retry_count < MaxRetryCount
    /\ queue' = FailById(queue, id, "Network Error")
    /\ hist' = H("queue", 0)
    /\ UNCHANGED <<nextId, deviceClock>>
    /\ UNCHANGED nonQueueVars

\* retryFailedItem(id) on a row of the failed list
RetryFailedItemCall(id) ==
    /\ \E r \in queue : r.id = id /\ r.retry_count >= RETRY_CAP
    /\ queue' = ResetById(queue, id)
    /\ hist' = H("retryFailedItem", id)
    /\ UNCHANGED <<nextId, deviceClock>>
    /\ UNCHANGED nonQueueVars

NextBatch ==
    \/ \E x \in BatchEnqueues : addToQueue(x[1], x[2], x[3], x[4], x[5], x[6])
    \/ \E id \in 1..MaxQueueCalls : MarkItemFailedCall(id)
    \/ \E id \in 1..MaxQueueCalls : RetryFailedItemCall(id)
    \/ \E limit \in Limits : GetNextQueueItemsCall(limit)
    \/ GetFailedItemsCall
    \/ GetQueueCountCall
    \/ Tick

SpecBatch == Init /\ [][NextBatch]_vars

Range(sq) == {sq[i] : i \in 1..Len(sq)}

Min(a, b) == IF a <= b THEN a ELSE b

\* the items of the rows with retry_count below the cap
Eligible(q) == {rowToItem(r) : r \in {x \in q : x.retry_count < RETRY_CAP}}

ItemBefore(a, b) ==
    \/ a.priority > b.priority
    \/ a.priority = b.priority /\ a.createdAt < b.createdAt

\* C14: getNextQueueItems(limit) returns min(limit, k) distinct items out of the
\* k with retryCount < 3, in priority-descending then createdAt-ascending
\* order, no item left out comes before a returned one in that order, and the
\* call leaves the queue unchanged.
C14_NextBatchOrder ==
    /\ [](hist.op = "getNextQueueItems" =>
             LET items == hist.items
                 k == Cardinality(Eligible(queue))
             IN /\ Len(items) = Min(hist.n, k)
                /\ Range(items) \subseteq Eligible(queue)
                /\ Cardinality(Range(items)) = Len(items)
                /\ \A i, j \in 1..Len(items) : i < j => ~ItemBefore(items[j], items[i])
                /\ \A x \in Eligible(queue) \ Range(items) :
                      \A i \in 1..Len(items) : ~ItemBefore(x, items[i]))
    /\ [][\A limit \in Limits : queue' = queue \/ ~GetNextQueueItemsCall(limit)]_vars

\* a limit of 2 has cut a batch out of three eligible items: the item of
\* higher priority first, then the older of the two of equal priority
C14_Witness ==
    /\ hist.op = "getNextQueueItems"
    /\ hist.n = 2
    /\ Len(hist.items) = 2
    /\ Cardinality(Eligible(queue)) = 3
    /\ hist.items[1].priority > hist.items[2].priority
    /\ \E x \in Eligible(queue) \ Range(hist.items) :
          x.priority = hist.items[2].priority /\ x.createdAt > hist.items[2].createdAt

\* C15: among items of equal priority getNextQueueItems returns them in the
\* order they were enqueued (ids ascending), also when they carry the same
\* createdAt.
C15_EnqueueOrderAmongEqualPriority ==
    hist.op = "getNextQueueItems" =>
        \A i, j \in 1..Len(hist.items) :
            (i < j /\ hist.items[i].priority = hist.items[j].priority) =>
                hist.items[i].id < hist.items[j].id

InSomeResult(r, results) == \E b \in results : rowToItem(r) \in Range(b)

\* C16: markItemFailed never deletes a row; a row at the cap is in no
\* getNextQueueItems result, is counted by getQueueCount and is in the
\* getFailedItems result; retryFailedItem sets its retry_count to 0 and clears
\* last_error, after which it is eligible for getNextQueueItems (returned
\* whenever the limit covers the eligible rows) and no longer in
\* getFailedItems; every row is in exactly one of the two sets.
C16_RetryCap ==
    /\ []((hist.op = "getNextQueueItems") =>
             \A i \in 1..Len(hist.items) : hist.items[i].retryCount < RETRY_CAP)
    /\ []((hist.op = "getFailedItems") =>
             Range(hist.items) =
                {rowToItem(r) : r \in {x \in queue : x.retry_count >= RETRY_CAP}})
    /\ []((hist.op = "getQueueCount") => hist.n = Cardinality(queue))
    /\ [](LET batches == getNextQueueItems(queue, Cardinality(queue))
               failed == getFailedItems(queue)
           IN  \A r \in queue : InSomeResult(r, batches) # InSomeResult(r, failed))
    /\ [][\A id \in 1..MaxQueueCalls :
            /\ \/ hist'.op # "queue"
               \/ /\ {r.id : r \in queue'} = {r.id : r \in queue}
                  /\ \A r \in queue : (r.id = id) =>
                        \E r2 \in queue' : r2.id = id /\ r2.retry_count = r.retry_count + 1
               \/ ~MarkItemFailedCall(id)
            /\ \/ hist'.op # "retryFailedItem"
               \/ \A r \in queue' : (r.id = id) =>
                       /\ r.retry_count = 0
                       /\ r.last_error = NULLTEXT
                       /\ \A b \in getNextQueueItems(queue', Cardinality(queue')) :
                             rowToItem(r) \in Range(b)
                       /\ ~InSomeResult(r, getFailedItems(queue'))
               \/ ~RetryFailedItemCall(id)]_vars

\* a row driven past the cap by a fourth markItemFailed is listed by
\* getFailedItems while another row is still eligible
C16_Witness ==
    /\ hist.op = "getFailedItems"
    /\ \E i \in 1..Len(hist.items) : hist.items[i].retryCount > RETRY_CAP
    /\ \E r \in queue : r.retry_count = 0 /\ r.last_error = NULLTEXT
    /\ nextId > 2

----------------------------------------------------------------------------
(* SpecRetry: retryWithBackoff around one wrapped call *)

\* every AxiosError taken for a rate limit
isRateLimitError_AnyAxios(e) == e.axios

\* isRateLimitError
isRateLimitError(e) == e.axios /\ e.status = 429

\* the same delay before every retry
BackoffDelay_Constant(baseDelay, attempt) == baseDelay

\* baseDelay * Math.pow(2, attempt)
BackoffDelay(baseDelay, attempt) == baseDelay * 2^attempt

\* the ways the wrapped call settles: resolved, 429, 409, 503, no response,
\* and an error that is not an AxiosError
Settlements ==
    {Settled(TRUE, FALSE, 200), Settled(FALSE, TRUE, 429), Settled(FALSE, TRUE, 409),
     Settled(FALSE, TRUE, 503), Settled(FALSE, TRUE, 0), Settled(FALSE, FALSE, 429)}

BaseDelays == {500, BASE_DELAY}

nonBackoffVars == <<queue, nextId, enq, deviceClock, localJobs, memJobs, server,
                    serverClock, networkStatus, isSyncing, lastSyncedAt,
                    pendingCount, conflicts, photo, svc, error, cycle>>

\* retryWithBackoff(fn, maxRetries, baseDelay) up to its first await
RetryWithBackoffCall(maxRetries, baseDelay) ==
    /\ backoff.pc = "idle"
    /\ backoff' = [IdleBackoff EXCEPT !.pc = "calling", !.maxRetries = maxRetries,
                                      !.baseDelay = baseDelay]
    /\ hist' = H("step", 0)
    /\ UNCHANGED nonBackoffVars

\* await fn() settles
FnSettles(o) ==
    /\ backoff.pc = "calling"
    /\ LET b == [backoff EXCEPT !.calls = Append(backoff.calls, o)]
       IN backoff' =
            IF o.ok THEN [b EXCEPT !.pc = "returned"]
            ELSE IF ~isRateLimitError(o)
                 THEN [b EXCEPT !.pc = "thrown", !.lastError = o]
            ELSE IF b.attempt < b.maxRetries - 1
                 THEN [b EXCEPT !.pc = "sleeping", !.lastError = o,
                                !.delays = Append(b.delays,
                                                  BackoffDelay(b.baseDelay, b.attempt))]
            ELSE [b EXCEPT !.pc = "thrown", !.lastError = o, !.attempt = b.attempt + 1]
    /\ hist' = H("step", 0)
    /\ UNCHANGED nonBackoffVars

\* await sleep(delay) is over: the next turn of the loop
SleepDone ==
    /\ backoff.pc = "sleeping"
    /\ backoff' = [backoff EXCEPT !.pc = "calling", !.attempt = backoff.attempt + 1]
    /\ hist' = H("step", 0)
    /\ UNCHANGED nonBackoffVars

\* the caller has taken the result or the error
BackoffDone ==
    /\ backoff.pc \in {"returned", "thrown"}
    /\ backoff' = IdleBackoff
    /\ hist' = H("step", 0)
    /\ UNCHANGED nonBackoffVars

FnSettlesAny == \E o \in Settlements : FnSettles(o)

NextRetry ==
    \/ \E m \in 1..MaxRetriesArg, d \in BaseDelays : RetryWithBackoffCall(m, d)
    \/ FnSettlesAny
    \/ SleepDone
    \/ BackoffDone

\* the wrapped call settles and the timer of sleep fires
SpecRetry == Init /\ [][NextRetry]_vars /\ WF_vars(FnSettlesAny) /\ WF_vars(SleepDone)

Is429(o) == ~o.ok /\ o.axios /\ o.status = 429

LastCall == backoff.calls[Len(backoff.calls)]

\* C17: retryWithBackoff invokes the wrapped call again only after a 429: a
\* success returns after that attempt, any other error is rethrown after that
\* one failing attempt with no delay, a call that is always rate-limited is
\* invoked exactly maxRetries times (3 by default) and then fails with the
\* last 429, and every invocation of the wrapper ends.
C17_RetryOnlyOnRateLimit ==
    /\ [](backoff.pc # "idle" =>
             /\ Len(backoff.calls) <= backoff.maxRetries
             /\ \A i \in 1..(Len(backoff.calls) - 1) : Is429(backoff.calls[i]))
    /\ [](backoff.pc = "returned" => LastCall.ok)
    /\ [](backoff.pc = "thrown" =>
             /\ ~LastCall.ok
             /\ backoff.lastError = LastCall
             /\ Is429(LastCall) => Len(backoff.calls) = backoff.maxRetries
             /\ ~Is429(LastCall) => Len(backoff.delays) = Len(backoff.calls) - 1)
    /\ (backoff.pc = "calling") ~> (backoff.pc \in {"returned", "thrown"})

\* the default three attempts have all been rate-limited and the wrapper has
\* thrown the last 429
C17_Witness ==
    /\ backoff.pc = "thrown"
    /\ backoff.maxRetries = MAX_RETRIES
    /\ Len(backoff.calls) = 3
    /\ Is429(LastCall)

\* C18: the delay before attempt k+1 is baseDelay * 2^k for the 0-based index
\* k of the rate-limited attempt (1000 ms then 2000 ms by default), and no
\* delay follows the final allowed attempt.
C18_BackoffDelays ==
    /\ [](\A k \in 1..Len(backoff.delays) :
             backoff.delays[k] = backoff.baseDelay * 2^(k - 1))
    /\ [](backoff.pc # "idle" =>
             /\ Len(backoff.delays) <= backoff.maxRetries - 1
             /\ Len(backoff.delays) <= Len(backoff.calls))
    /\ []((backoff.pc = "thrown" /\ Is429(LastCall)) =>
             Len(backoff.delays) = Len(backoff.calls) - 1)
    /\ []((backoff.baseDelay = BASE_DELAY /\ Len(backoff.delays) >= 2) =>
             (backoff.delays[1] = 1000 /\ backoff.delays[2] = 2000))

\* with the defaults the wrapper has slept 1000 ms and 2000 ms and then given up
C18_Witness ==
    /\ backoff.pc = "thrown"
    /\ backoff.maxRetries = MAX_RETRIES
    /\ backoff.baseDelay = BASE_DELAY
    /\ backoff.delays = <<1000, 2000>>

\* C19: a push failure that is neither a conflict nor a rate limit adds
\* exactly 1 to the item's retryCount and stores the message as lastError,
\* leaves every row in the queue, and the push phase goes on with the next
\* item of the batch; an item is transmitted only while its retryCount is
\* below 3, so it fails in at most 3 cycles and retryCount stays within 0..3.
C19_PushFailureCounts ==
    /\ [](\A r \in queue : r.retry_count \in 0..RETRY_CAP)
    /\ [][\A c \in Cycles :
            /\ (cycle[c].pc = "pushing" /\ PushItemFailed(c)) =>
                   /\ {r.id : r \in queue'} = {r.id : r \in queue}
                   /\ \A r \in queue :
                         IF r.id = CurrentItem(c).id
                         THEN [r EXCEPT !.retry_count = r.retry_count + 1,
                                        !.last_error = "Network Error"] \in queue'
                         ELSE r \in queue'
                   /\ IF Len(cycle[c].batch) > 1
                      THEN /\ cycle'[c].pc = "pushing"
                           /\ cycle'[c].batch = Tail(cycle[c].batch)
                      ELSE cycle'[c] = IdleCycle /\ error' = error
            /\ cycle[c].pc = "pushing" =>
                   \/ \A r \in queue :
                         (r.id = CurrentItem(c).id) => r.retry_count < RETRY_CAP
                   \/ ~Transmits(c)]_vars

\* an item has failed in three cycles and stays in the queue while a later
\* cycle pushes another item
C19_Witness ==
    /\ \E r \in queue : r.retry_count = RETRY_CAP /\ r.last_error = "Network Error"
    /\ \E c \in Cycles :
          /\ cycle[c].pc = "pushing"
          /\ \E r \in queue : r.id = CurrentItem(c).id /\ r.retry_count < RETRY_CAP

C26_EnqueueDuringPush ==
    /\ []((enq["ui-1"].pc = "idle" /\ nextId <= MaxItems) =>
             ENABLED SaveDraftOffline("ui-1", "job-1"))
    /\ [][\A c \in Cycles :
            (cycle[c].pc = "pushing" /\ cycle'[c] # cycle[c]) =>
                \A r \in queue : (r.id # CurrentItem(c).id) => r \in queue']_vars

\* the push of an item has ended with success or conflict after a row for the
\* same entity was enqueued during it; that row is in the queue with
\* retry_count 0
C26_Witness ==
    /\ hist.op \in {"push:success", "push:conflict:fetched", "push:conflict:nofetch"}
    /\ \E r \in queue :
          /\ r.entity_type = hist.etype
          /\ r.entity_id = hist.job
          /\ r.id > hist.id
          /\ r.retry_count = 0

\* C27: whenever no cycle is running and no enqueue is under way, every job
\* record with is_dirty = 1 has a row in the queue whose entity_id is that job,
\* whatever its retry_count.
C27_DirtyHasQueueItem ==
    (ActiveCycles = {} /\ \A p \in Callers : enq[p].pc = "idle") =>
        \A r \in localJobs :
            r.is_dirty = 1 => \E x \in queue : x.entity_id = r.id

\* C28: a cycle starts only in a step that leaves networkStatus 'online'; a
\* step that changes networkStatus to 'online' while isSyncing is false starts
\* a cycle; a step that changes networkStatus to 'offline' leaves the running
\* cycle, isSyncing, the queue and the SyncCursor as they are.
C28_ConnectivityTrigger ==
    [][/\ \A c \in Cycles :
             (cycle[c].pc = "idle" /\ cycle'[c].pc # "idle") =>
                 /\ networkStatus' = "online"
                 /\ cycle'[c].pc = "pulling"
       /\ (networkStatus # "online" /\ networkStatus' = "online" /\ ~isSyncing) =>
             /\ isSyncing'
             /\ Cardinality({c \in Cycles : cycle'[c].pc = "pulling"}) = 1
       /\ (networkStatus # "offline" /\ networkStatus' = "offline") =>
             /\ cycle' = cycle
             /\ isSyncing' = isSyncing
             /\ queue' = queue
             /\ lastSyncedAt' = lastSyncedAt
             /\ error' = error]_vars

\* the device went offline during the push phase of a cycle and the cycle is
\* still on its batch
C28_Witness ==
    /\ networkStatus = "offline"
    /\ isSyncing
    /\ hist.pull = "applied"
    /\ \E c \in Cycles : cycle[c].pc = "pushing" /\ Len(cycle[c].batch) = 1
    /\ \E r \in queue : r.retry_count = 1

\* C22: getQueueCount is the number of rows whatever their retry_count, and the
\* step in which a push phase finishes (empty batch, batch exhausted, or loop
\* left on a rate limit) sets pendingCount to getQueueCount of the queue as
\* that step leaves it.
C22_PendingCountRefreshed ==
    /\ [](getQueueCount(queue) = Cardinality({r.id : r \in queue}))
    /\ [][\A c \in Cycles :
            (cycle[c].pc \in {"push_start", "pushing"} /\ cycle'[c].pc = "idle") =>
                /\ pendingCount' = getQueueCount(queue')
                /\ pendingCount' = Cardinality({r.id : r \in queue'})]_vars

\* a push phase has been left on a rate limit with an inactive row and the
\* untouched row both counted
C22_Witness ==
    /\ hist.op = "push:rate_limited"
    /\ hist.ended
    /\ pendingCount = 2
    /\ \E r \in queue : r.retry_count = RETRY_CAP
    /\ \E r \in queue : r.id = hist.id /\ r.retry_count = 0

----------------------------------------------------------------------------
(* SpecLive: the cycle when every call it awaits returns, the queue updates
   of the push phase included among the calls that can throw *)

\* the error of the queue update leaving startSync uncaught
PushQueueUpdateThrew_Uncaught(c) ==
    /\ cycle[c].pc = "pushing"
    /\ RequestOf(CurrentItem(c)).kind # "none"
    /\ cycle' = [cycle EXCEPT ![c] = IdleCycle]
    /\ hist' = [H("push:threw", CurrentItem(c).id) EXCEPT !.ended = TRUE]
    /\ UNCHANGED <<queue, nextId, enq, deviceClock, localJobs, memJobs, server,
                   serverClock, networkStatus, isSyncing, error, lastSyncedAt,
                   pendingCount, conflicts, backoff, photo, svc>>

\* pushChanges: the request fails and markItemFailed throws as well; the
\* error leaves pushChanges and startSync catches it
PushQueueUpdateThrew(c) ==
    /\ cycle[c].pc = "pushing"
    /\ RequestOf(CurrentItem(c)).kind # "none"
    /\ cycle' = [cycle EXCEPT ![c] = IdleCycle]
    /\ isSyncing' = FALSE
    /\ error' = "database error"
    /\ hist' = [H("push:threw", CurrentItem(c).id) EXCEPT !.ended = TRUE]
    /\ UNCHANGED <<queue, nextId, enq, deviceClock, localJobs, memJobs, server,
                   serverClock, networkStatus, lastSyncedAt, pendingCount,
                   conflicts, backoff, photo, svc>>

\* <<entityType, entityId, action, payload, filePath, priority>>
LiveEnqueues ==
    {<<"job", "job-1", "update", [status |-> "in_progress", version |-> 1], UNDEFINED, 0>>,
     <<"checklist_response", "job-1", "update",
       [responses |-> "draft", completeJob |-> FALSE, version |-> 0], UNDEFINED, 5>>}

\* addToQueue up to its first await, called with one of LiveEnqueues
LiveAddToQueueDelete(p) ==
    /\ \E x \in LiveEnqueues : AddToQueueDelete(p, x[1], x[2], x[3], x[4], x[5], x[6])
    /\ hist' = H("step", 0)
    /\ UNCHANGED <<nextId, deviceClock, localJobs, memJobs, server, serverClock,
                   networkStatus, isSyncing, lastSyncedAt, pendingCount,
                   conflicts, backoff, photo, svc, error, cycle>>

\* the call the cycle c is waiting for returns or throws
CycleStep(c) ==
    \/ PullSuccess(c)
    \/ PullRateLimited(c)
    \/ PullFailed(c)
    \/ PushBegin(c)
    \/ PushItemSuccess(c)
    \/ \E fetchOk \in BOOLEAN : PushItemConflict(c, fetchOk)
    \/ PushItemRateLimited(c)
    \/ PushItemFailed(c)
    \/ PushQueueUpdateThrew(c)

NextLive ==
    \/ StartSync
    \/ \E s \in {"online", "offline"} : NetInfoChange(s)
    \/ \E s \in {"online", "offline"} : NetInfoFetch(s)
    \/ \E c \in Cycles : CycleStep(c)
    \/ \E p \in EngineCallers : LiveAddToQueueDelete(p)
    \/ \E p \in EngineCallers : AddToQueueInsert(p)

SpecLive == Init /\ [][NextLive]_vars /\ \A c \in Cycles : WF_vars(CycleStep(c))

\* C29: a cycle all of whose calls return or throw ends: isSyncing leads to
\* ~isSyncing with every cycle back at idle, after a push as after a failed
\* pull or a queue update that threw, and whenever isSyncing is false and the
\* device is online startSync starts a new cycle.
C29_CycleEnds ==
    /\ isSyncing ~> (~isSyncing /\ ActiveCycles = {})
    /\ [](isSyncing = (ActiveCycles # {}))
    /\ []((~isSyncing /\ networkStatus = "online") => ~StartSyncBlocked)
    /\ [][(~isSyncing /\ networkStatus = "online" /\ StartSync) => isSyncing']_vars

\* a cycle has ended on a queue update that threw; an earlier one ended on a
\* failed item, and isSyncing is false again
C29_Witness ==
    /\ hist.op = "push:threw"
    /\ hist.ended
    /\ ~isSyncing
    /\ error = "database error"
    /\ \E r \in queue : r.retry_count > 0

----------------------------------------------------------------------------
(* SpecDrain: cycles started again and again on a device that stays online,
   over a queue that is filled a bounded number of times; every request is
   answered, and a push request is not answered with rate limits for ever *)

\* NetInfo reporting the device online: the fetch callback and the listener
DrainOnline == NetInfoFetch("online") \/ NetInfoChange("online")

\* startSync passing its guard
DrainStartCycle == ~StartSyncBlocked /\ StartSync

\* the answer to the pull request or to the request of the current item
DrainStep(c) ==
    \/ PullSuccess(c)
    \/ PullRateLimited(c)
    \/ PullFailed(c)
    \/ PushBegin(c)
    \/ PushItemSuccess(c)
    \/ \E fetchOk \in BOOLEAN : PushItemConflict(c, fetchOk)
    \/ PushItemRateLimited(c)
    \/ PushItemFailed(c)

\* the current item handled: the three outcomes of the loop body that do not
\* break out of it
DrainItemHandled(c) ==
    \/ PushItemSuccess(c)
    \/ \E fetchOk \in BOOLEAN : PushItemConflict(c, fetchOk)
    \/ PushItemFailed(c)

NextDrain ==
    \/ DrainOnline
    \/ StartSync
    \/ \E c \in Cycles : DrainStep(c)
    \/ \E p \in EngineCallers : LiveAddToQueueDelete(p)
    \/ \E p \in EngineCallers : AddToQueueInsert(p)

SpecDrain ==
    /\ Init
    /\ [][NextDrain]_vars
    /\ WF_vars(DrainOnline)
    /\ WF_vars(DrainStartCycle)
    /\ \A c \in Cycles : WF_vars(DrainStep(c))
    /\ \A c \in Cycles : SF_vars(DrainItemHandled(c))

\* the row id is in the queue and getNextQueueItems can select it
EligibleId(id) == \E r \in queue : r.id = id /\ r.retry_count < RETRY_CAP

\* a cycle has ended on a failed pull
PullJustFailed == hist.pull = "failed" /\ hist.ended

\* C30 as stated: under cycles repeated while online, every request answered
\* and rate limits not repeated for ever, every row with retry_count < 3 is
\* eventually removed or reaches retry_count = 3.
C30_EveryItemHandled ==
    \A id \in 1..MaxItems : EligibleId(id) ~> ~EligibleId(id)

\* C30, amended: the same, unless the pull fails again and again: a failed
\* pull ends the cycle before getNextQueueItems is called.
C30_HandledUnlessPullKeepsFailing ==
    \A id \in 1..MaxItems :
        \/ []<>PullJustFailed
        \/ EligibleId(id) ~> ~EligibleId(id)

\* both rows have been handled, the one sent first inactive after three
\* failed attempts and the one behind it removed, and the last cycle has ended
\* on a failed pull
C30_Witness ==
    /\ networkStatus = "online"
    /\ ~isSyncing
    /\ error = "Network Error"
    /\ hist.ended
    /\ nextId = 3
    /\ Cardinality(queue) = 1
    /\ \A r \in queue : r.retry_count = RETRY_CAP /\ ~EligibleId(r.id)

----------------------------------------------------------------------------
(* SpecPull: the pull phase applying a response whose 'updated' and 'deleted'
   lists are arbitrary, the deleteJob calls of the 'deleted' list awaited one
   by one, interleaved with local mutations that are queued *)

\* the 'updated' lists of a response: at most one entry per job id
PullLists ==
    {{Job(j, "completed", f[j]) : j \in ids} : ids \in SUBSET JobIds,
                                               f \in [JobIds -> 1..MaxVersion]}

\* the 'deleted' lists of a response, an id named twice among them
DeletedLists == {<<>>} \cup {<<j>> : j \in JobIds}
                       \cup {<<j, k>> : j \in JobIds, k \in JobIds}

\* pullChanges: the response arrives, saveJobs(jobs.updated, true) runs, and
\* with an empty 'deleted' list set({lastSyncedAt: syncedAt})
PullResponse(c, updated, deleted) ==
    /\ cycle[c].pc = "pulling"
    /\ localJobs' = saveJobs(localJobs, updated, TRUE, deviceClock)
    /\ IF deleted = <<>>
       THEN /\ lastSyncedAt' = serverClock
            /\ cycle' = [cycle EXCEPT ![c].pc = "push_start"]
       ELSE /\ cycle' = [cycle EXCEPT ![c].pc = "pull_deleting", ![c].batch = deleted]
            /\ UNCHANGED lastSyncedAt
    /\ hist' = [H("pull:saved", 0) EXCEPT !.pull = "applied"]
    /\ UNCHANGED <<queue, nextId, enq, deviceClock, memJobs, server, serverClock,
                   networkStatus, isSyncing, pendingCount, conflicts, backoff, photo, svc, error>>

\* pullChanges: one deleteJob(jobId) of the loop over jobs.deleted, and after
\* the last one set({lastSyncedAt: syncedAt})
PullDeleteJob(c) ==
    /\ cycle[c].pc = "pull_deleting"
    /\ LET jobId == Head(cycle[c].batch)
       IN /\ localJobs' = deleteJob(localJobs, jobId)
          /\ hist' = [H("pull:deleted", 0) EXCEPT !.job = jobId,
                                                  !.dirty = IsDirty(localJobs, jobId),
                                                  !.pull = "applied"]
    /\ IF Len(cycle[c].batch) = 1
       THEN /\ lastSyncedAt' = serverClock
            /\ cycle' = [cycle EXCEPT ![c].pc = "push_start", ![c].batch = <<>>]
       ELSE /\ cycle' = [cycle EXCEPT ![c].batch = Tail(cycle[c].batch)]
            /\ UNCHANGED lastSyncedAt
    /\ UNCHANGED <<queue, nextId, enq, deviceClock, memJobs, server, serverClock,
                   networkStatus, isSyncing, pendingCount, conflicts, backoff, photo, svc, error>>

NextPull ==
    \/ NetInfoFetch("online")
    \/ StartSync
    \/ FetchJobs
    \/ \E p \in EngineCallers, j \in AssignedJobs : UpdateJobStatusOffline(p, j, "in_progress")
    \/ \E p \in EngineCallers : AddToQueueInsert(p)
    \/ \E c \in Cycles, updated \in PullLists, deleted \in DeletedLists :
          PullResponse(c, updated, deleted)
    \/ \E c \in Cycles : PullDeleteJob(c)
    \/ \E c \in Cycles : PushBegin(c)
    \/ \E c \in Cycles : PushItemSuccess(c)
    \/ \E c \in Cycles : PushItemFailed(c)

SpecPull == Init /\ [][NextPull]_vars

\* C33: each deleteJob of the 'deleted' list removes the record of that id,
\* dirty or not and whatever its versions, changes no other record, and
\* leaves the queue and the enqueues in progress as they were.
C33_DeletedRemovedUnconditionally ==
    [][\A c \in Cycles :
          (cycle[c].pc = "pull_deleting" /\ cycle'[c] # cycle[c]) =>
              /\ JobRows(localJobs', Head(cycle[c].batch)) = {}
              /\ \A r \in localJobs : r.id # Head(cycle[c].batch) => r \in localJobs'
              /\ localJobs' \subseteq localJobs
              /\ queue' = queue
              /\ enq' = enq]_vars

\* the record of a job named in 'deleted' has been removed while it was dirty,
\* and the queue still holds the update of that job
C33_Witness ==
    /\ hist.op = "pull:deleted"
    /\ hist.dirty
    /\ JobRows(localJobs, hist.job) = {}
    /\ \E x \in queue : x.entity_type = "job" /\ x.entity_id = hist.job

\* pullChanges applying one response without interruption:
\* saveJobs(jobs.updated, true), then deleteJob for each id of jobs.deleted
PullApplied(t, updated, deleted, now) ==
    deleteJobs(saveJobs(t, updated, TRUE, now), {deleted[i] : i \in 1..Len(deleted)})

\* what the merge decides of each record: data, server_version, is_dirty
MergeView(t) ==
    {[id |-> r.id, data |-> r.data, server_version |-> r.server_version,
      is_dirty |-> r.is_dirty] : r \in t}

\* C34: for every table of job records the device reaches and every response,
\* applying the response a second time, at the same or a later device time
\* and with no local mutation in between, leaves data, server_version and
\* is_dirty of every record as they were after the first application.
C34_PullIdempotent ==
    \A updated \in PullLists, deleted \in DeletedLists :
        LET once == PullApplied(localJobs, updated, deleted, deviceClock)
        IN \A now2 \in deviceClock..MaxClock :
              MergeView(PullApplied(once, updated, deleted, now2)) = MergeView(once)

\* a deleteJob has removed a record and a dirty record is left: the table is
\* what a response that updates the dirty record at its server_version and
\* deletes the other one gives and gives again, while a response with a
\* newer version changes it
C34_Witness ==
    /\ hist.op = "deleteJob"
    /\ JobRows(localJobs, hist.job) = {}
    /\ \E r \in localJobs :
          /\ r.is_dirty = 1
          /\ r.server_version # NULL
          /\ PullApplied(localJobs, {Job(r.id, "completed", r.server_version)},
                         <<hist.job>>, deviceClock) = localJobs
          /\ PullApplied(localJobs, {Job(r.id, "completed", r.server_version + 1)},
                         <<hist.job>>, deviceClock) # localJobs

----------------------------------------------------------------------------
(* SpecResolve: resolveConflict called on a store whose conflicts list holds
   SyncConflict records.  No code of the repository adds a record to the
   list (see C36), so the list is an input of the handler here: Init draws it
   from ConflictLists, each record holding the payload of a job update that
   was rejected and the job as the backend has it, one version ahead. *)

Resolvers == {"ui-2"}

\* the version localData of the conflicts carries: the expected version of
\* the push that conflicted
ConflictVersion == 1

\* SyncConflict records (types/index.ts), the fields resolveConflict reads
ConflictRecords ==
    {[id |-> i, entityType |-> "job", entityId |-> "job-1",
      localData |-> [status |-> s, version |-> ConflictVersion],
      serverData |-> Job("job-1", "completed", ConflictVersion + 1)] :
        i \in 1..2, s \in {"in_progress", "completed"}}

\* conflicts lists: no two records with the same id
ConflictLists ==
    {cs \in SUBSET ConflictRecords : \A a, b \in cs : a.id = b.id => a = b}

InitResolve ==
    /\ queue = {}
    /\ nextId = 1
    /\ enq = [p \in Callers |-> IdleEnq]
    /\ deviceClock = 1
    /\ localJobs = {}
    /\ memJobs = {}
    /\ server = {[id |-> "job-1", status |-> "completed",
                  version |-> ConflictVersion + 1, updated_at |-> 1]}
    /\ serverClock = 1
    /\ networkStatus = "online"
    /\ isSyncing = FALSE
    /\ lastSyncedAt = NULL
    /\ pendingCount = 0
    /\ conflicts \in ConflictLists
    /\ backoff = IdleBackoff
    /\ photo = IdlePhoto
    /\ svc = [p \in Handlers |-> IdleHandler]
    /\ error = NULLTEXT
    /\ cycle = [c \in Cycles |-> IdleCycle]
    /\ hist = [op |-> "init", id |-> 0, conflicted |-> {}, replaced |-> {},
               job |-> "", ver |-> 0, dirty |-> FALSE, ended |-> FALSE, okJobs |-> {},
               since |-> NULL, pull |-> "none", left |-> 0, items |-> <<>>, n |-> 0,
               etype |-> ""]

\* the payload resolveConflict hands to addToQueue: conflict.localData
RequeuePayload(conflict) == conflict.localData

\* resolveConflict(conflictId, resolution) up to its first await: the conflict
\* is looked up in the list read by get(); not found, the call returns; with
\* 'local', addToQueue runs up to its DELETE; with 'server', saveJob(serverData,
\* true) and the set() that removes the conflict
ResolveConflictCall(p, conflictId, resolution) ==
    /\ enq[p].pc = "idle"
    /\ IF ~\E c \in conflicts : c.id = conflictId
       THEN /\ hist' = H("resolveConflict:none", conflictId)
            /\ UNCHANGED <<queue, enq, localJobs, conflicts>>
       ELSE LET conflict == CHOOSE c \in conflicts : c.id = conflictId IN
            IF resolution = "local"
            THEN /\ nextId + Cardinality({x \in Callers : enq[x].pc # "idle"}) <= MaxItems
                 /\ queue' = DeleteForEntity(queue, conflict.entityType, conflict.entityId)
                 /\ enq' = [enq EXCEPT ![p] = [pc |-> "resolve_deleted",
                                               conflict |-> conflict,
                                               conflicts |-> conflicts]]
                 /\ hist' = H("step", conflictId)
                 /\ UNCHANGED <<localJobs, conflicts>>
            ELSE /\ localJobs' = IF conflict.entityType = "job"
                                 THEN saveJob(localJobs, conflict.serverData, TRUE, deviceClock)
                                 ELSE localJobs
                 /\ conflicts' = {c \in conflicts : c.id # conflictId}
                 /\ hist' = [H("resolveConflict:server", conflictId) EXCEPT
                               !.job = conflict.entityId]
                 /\ UNCHANGED <<queue, enq>>
    /\ UNCHANGED <<nextId, deviceClock, memJobs, server, serverClock, networkStatus,
                   isSyncing, lastSyncedAt, pendingCount, backoff, photo, svc, error, cycle>>

\* resolveConflict('local') after the DELETE of addToQueue: the INSERT with
\* priority 10, set({conflicts: conflicts.filter(...)}) over the list read at
\* the start of the call, and pushChanges called up to its getNextQueueItems
ResolveConflictInsert(p) ==
    /\ enq[p].pc = "resolve_deleted"
    /\ LET conflict == enq[p].conflict
       IN /\ queue' = InsertRow(queue, nextId, conflict.entityType, conflict.entityId,
                                "update", RequeuePayload(conflict), UNDEFINED, 10,
                                deviceClock)
          /\ conflicts' = {c \in enq[p].conflicts : c.id # conflict.id}
          /\ hist' = [H("resolveConflict:local", nextId) EXCEPT
                        !.job = conflict.entityId,
                        !.ver = conflict.localData.version,
                        !.n = conflict.id]
    /\ nextId' = nextId + 1
    /\ enq' = [enq EXCEPT ![p] = [pc |-> "resolve_push", batch |-> <<>>]]
    /\ UNCHANGED <<deviceClock, localJobs, memJobs, server, serverClock, networkStatus,
                   isSyncing, lastSyncedAt, pendingCount, backoff, photo, svc, error, cycle>>

\* the pushChanges of resolveConflict: getNextQueueItems(10) returns; with no
\* item the loop is skipped and updatePendingCount runs
ResolvePushBegin(p) ==
    /\ enq[p].pc = "resolve_push"
    /\ \E items \in getNextQueueItems(queue, BATCH_LIMIT) :
          IF items = <<>>
          THEN /\ enq' = [enq EXCEPT ![p] = IdleEnq]
               /\ pendingCount' = getQueueCount(queue)
               /\ hist' = [H("resolve:push", 0) EXCEPT !.ended = TRUE]
          ELSE /\ enq' = [enq EXCEPT ![p] = [pc |-> "resolve_pushing", batch |-> items]]
               /\ hist' = H("step", 0)
               /\ UNCHANGED pendingCount
    /\ UNCHANGED <<queue, nextId, deviceClock, localJobs, memJobs, server, serverClock,
                   networkStatus, isSyncing, lastSyncedAt, conflicts, backoff, photo, svc,
                   error, cycle>>

\* the pushChanges of resolveConflict after one item: the next item, or the
\* end of the loop and updatePendingCount
ResolveAfterItem(p, q, stop) ==
    IF stop \/ Len(enq[p].batch) = 1
    THEN /\ enq' = [enq EXCEPT ![p] = IdleEnq]
         /\ pendingCount' = getQueueCount(q)
    ELSE /\ enq' = [enq EXCEPT ![p].batch = Tail(enq[p].batch)]
         /\ UNCHANGED pendingCount

\* the pushChanges of resolveConflict: the outcome of the current item
\* (success, conflict resolved server-wins, rate limit, other failure)
ResolvePushItem(p, outcome, fetchOk) ==
    /\ enq[p].pc = "resolve_pushing"
    /\ LET item == Head(enq[p].batch)
           req == RequestOf(item)
           ended == outcome = "rate_limited" \/ Len(enq[p].batch) = 1
       IN /\ outcome = "success" => ServerOutcome(server, req) = "ok"
          /\ outcome = "conflict" => ServerOutcome(server, req) = "conflict"
          /\ outcome \in {"rate_limited", "failed"} => req.kind # "none"
          /\ outcome = "success" /\ req.kind \in {"patch", "complete"}
                => VersionBelowCap(server, req.jobId)
          /\ server' = IF outcome = "success" THEN ServerApply(server, req, serverClock)
                       ELSE server
          /\ localJobs' = IF outcome = "conflict"
                          THEN handleConflictServerWins(localJobs, item, fetchOk, deviceClock)
                          ELSE localJobs
          /\ queue' = CASE outcome = "success" -> DeleteById(queue, item.id)
                        [] outcome = "conflict" -> ConflictQueueUpdate(queue, item.id)
                        [] outcome = "failed" -> FailById(queue, item.id, "Network Error")
                        [] OTHER -> queue
          /\ ResolveAfterItem(p, queue', outcome = "rate_limited")
          /\ hist' = [H("resolve:push:" \o outcome, item.id) EXCEPT
                        !.job = item.entityId, !.etype = item.entityType,
                        !.ver = req.version, !.ended = ended]
    /\ UNCHANGED <<nextId, deviceClock, memJobs, serverClock, networkStatus, isSyncing,
                   lastSyncedAt, conflicts, backoff, photo, svc, error, cycle>>

NextResolve ==
    \/ \E p \in Resolvers, i \in 1..2, r \in {"local", "server"} :
          ResolveConflictCall(p, i, r)
    \/ \E p \in Resolvers : ResolveConflictInsert(p)
    \/ \E p \in Resolvers : ResolvePushBegin(p)
    \/ \E p \in Resolvers, o \in {"success", "conflict", "rate_limited", "failed"},
          fetchOk \in BOOLEAN : ResolvePushItem(p, o, fetchOk)
    \/ \E p \in EngineCallers : LiveAddToQueueDelete(p)
    \/ \E p \in EngineCallers : AddToQueueInsert(p)

SpecResolve == InitResolve /\ [][NextResolve]_vars

----------------------------------------------------------------------------
(* SpecAuto: the cycles of the engine from the store as it is created, with
   resolveConflict called at any moment *)

NextAuto ==
    \/ StartSync
    \/ \E s \in {"online", "offline"} : NetInfoChange(s)
    \/ \E s \in {"online", "offline"} : NetInfoFetch(s)
    \/ \E c \in Cycles : PullSuccess(c)
    \/ \E c \in Cycles : PullRateLimited(c)
    \/ \E c \in Cycles : PullFailed(c)
    \/ \E c \in Cycles : PushBegin(c)
    \/ \E c \in Cycles : PushItemSuccess(c)
    \/ \E c \in Cycles, fetchOk \in BOOLEAN : PushItemConflict(c, fetchOk)
    \/ \E c \in Cycles : PushItemRateLimited(c)
    \/ \E c \in Cycles : PushItemFailed(c)
    \/ \E p \in EngineCallers : LiveAddToQueueDelete(p)
    \/ \E p \in EngineCallers : AddToQueueInsert(p)
    \/ ServerEdit("job-1")
    \/ \E p \in Resolvers, i \in 1..MaxItems, r \in {"local", "server"} :
          ResolveConflictCall(p, i, r)

SpecAuto == Init /\ [][NextAuto]_vars

\* the push phases in progress: those of cycles and those of resolveConflict
PushPhases ==
    Cardinality({c \in Cycles : cycle[c].pc \in {"push_start", "pushing"}})
    + Cardinality({p \in Callers : enq[p].pc \in {"resolve_push", "resolve_pushing"}})

----------------------------------------------------------------------------
(* SpecKinds: the cycle over a queue filled by addToQueue calls of every
   entityType, with actions other than update among them *)

\* <<entityType, entityId, action, payload, filePath, priority>>
KindEnqueues ==
    {<<"job", "job-1", "update", [status |-> "in_progress", version |-> 1], UNDEFINED, 0>>,
     <<"job", "job-1", "delete", [version |-> 1], UNDEFINED, 0>>,
     <<"checklist_response", "job-1", "update",
       [responses |-> "draft", completeJob |-> FALSE, version |-> 0], UNDEFINED, 5>>,
     <<"photo", "job-1", "create", [fieldId |-> "photo-1"], "photo.jpg", 0>>}

NextKinds ==
    \/ \E x \in KindEnqueues : addToQueue(x[1], x[2], x[3], x[4], x[5], x[6])
    \/ StartSync
    \/ \E s \in {"online", "offline"} : NetInfoChange(s)
    \/ \E s \in {"online", "offline"} : NetInfoFetch(s)
    \/ \E c \in Cycles : PullSuccess(c)
    \/ \E c \in Cycles : PullRateLimited(c)
    \/ \E c \in Cycles : PullFailed(c)
    \/ \E c \in Cycles : PushBegin(c)
    \/ \E c \in Cycles : PushItemSuccess(c)
    \/ \E c \in Cycles, fetchOk \in BOOLEAN : PushItemConflict(c, fetchOk)
    \/ \E c \in Cycles : PushItemRateLimited(c)
    \/ \E c \in Cycles : PushItemFailed(c)

SpecKinds == Init /\ [][NextKinds]_vars

----------------------------------------------------------------------------
(* SpecServer: updateJob of the backend under concurrent requests *)

nonServerVars == <<queue, nextId, enq, deviceClock, localJobs, memJobs,
                   networkStatus, isSyncing, lastSyncedAt, pendingCount,
                   conflicts, backoff, photo, error, cycle>>

\* updates.status of PATCH /jobs/:id (optional) and of completeJob
UpdateStatuses == {"completed", UNDEFINED}

InFlightWith(p, jobId, expectedVersion) ==
    \E q \in Handlers \ {p} :
        /\ svc[q].pc \in {"update", "exists", "version"}
        /\ svc[q].jobId = jobId
        /\ svc[q].expectedVersion = expectedVersion

\* updateJob is entered: SELECT assigned_to, job_number, title WHERE id = ?
UpdateJobSelect(p, jobId, status, expectedVersion) ==
    /\ svc[p].pc \in {"idle", "returned", "thrown"}
    /\ svc' = [svc EXCEPT ![p] = [IdleHandler EXCEPT !.pc = "update", !.jobId = jobId,
                                                     !.status = status,
                                                     !.expectedVersion = expectedVersion,
                                                     !.raced = InFlightWith(p, jobId, expectedVersion)]]
    /\ hist' = H("step", 0)
    /\ UNCHANGED <<server, serverClock>>
    /\ UNCHANGED nonServerVars

\* the UPDATE without its version = ? condition
UpdateJobUpdate_IdOnly(p) ==
    /\ svc[p].pc = "update"
    /\ \A r \in ServerRows(server, svc[p].jobId) : r.version <= MaxVersion
    /\ server' = {IF r.id = svc[p].jobId
                     THEN [r EXCEPT !.status = IF svc[p].status = UNDEFINED
                                               THEN r.status ELSE svc[p].status,
                                    !.version = r.version + 1,
                                    !.updated_at = serverClock]
                     ELSE r : r \in server}
    /\ svc' = [svc EXCEPT ![p] =
                 IF server' # server
                 THEN [@ EXCEPT !.pc = "returned",
                                !.version = (CHOOSE r \in ServerRows(server', svc[p].jobId) : TRUE).version]
                 ELSE [@ EXCEPT !.pc = "exists"]]
    /\ hist' = H("step", 0)
    /\ UNCHANGED serverClock
    /\ UNCHANGED nonServerVars

\* updateJob: the UPDATE ... WHERE id = ? AND version = ? RETURNING *
UpdateJobUpdate(p) ==
    /\ svc[p].pc = "update"
    /\ server' = updateJobRows(server, svc[p].jobId, svc[p].status,
                               svc[p].expectedVersion, serverClock)
    /\ svc' = [svc EXCEPT ![p] =
                 IF server' # server
                 THEN [@ EXCEPT !.pc = "returned",
                                !.version = (CHOOSE r \in ServerRows(server', svc[p].jobId) : TRUE).version]
                 ELSE [@ EXCEPT !.pc = "exists"]]
    /\ hist' = H("step", 0)
    /\ UNCHANGED serverClock
    /\ UNCHANGED nonServerVars

\* updateJob: no row was updated; SELECT id WHERE id = ?
UpdateJobExists(p) ==
    /\ svc[p].pc = "exists"
    /\ svc' = [svc EXCEPT ![p] =
                 IF ServerRows(server, svc[p].jobId) = {}
                 THEN [@ EXCEPT !.pc = "thrown", !.code = "NOT_FOUND", !.statusCode = 404]
                 ELSE [@ EXCEPT !.pc = "version"]]
    /\ hist' = H("step", 0)
    /\ UNCHANGED <<server, serverClock>>
    /\ UNCHANGED nonServerVars

\* updateJob: SELECT version WHERE id = ?, throw ConflictError
UpdateJobVersion(p) ==
    /\ svc[p].pc = "version"
    /\ svc' = [svc EXCEPT ![p] =
                 [@ EXCEPT !.pc = "thrown", !.code = "VERSION_CONFLICT", !.statusCode = 409,
                           !.currentVersion =
                               IF ServerRows(server, svc[p].jobId) = {} THEN NULL
                               ELSE (CHOOSE r \in ServerRows(server, svc[p].jobId) : TRUE).version]]
    /\ hist' = H("step", 0)
    /\ UNCHANGED <<server, serverClock>>
    /\ UNCHANGED nonServerVars

NextServer ==
    \/ \E p \in Handlers, j \in JobIds, st \in UpdateStatuses,
          v \in 1..MaxVersion : UpdateJobSelect(p, j, st, v)
    \/ \E p \in Handlers : UpdateJobUpdate(p)
    \/ \E p \in Handlers : UpdateJobExists(p)
    \/ \E p \in Handlers : UpdateJobVersion(p)

SpecServer == Init /\ [][NextServer]_vars

\* C20: updateJob applies an update only when expectedVersion is the job's
\* current version and then adds exactly 1 to the version; otherwise it leaves
\* every job unchanged and throws not-found (404) when the job does not exist,
\* or VERSION_CONFLICT (409) carrying the expected version and the current
\* version it read.
C20_UpdateJobVersionCheck ==
    /\ [](\A p \in Handlers :
             /\ svc[p].pc = "thrown" =>
                   \/ svc[p].code = "NOT_FOUND" /\ svc[p].statusCode = 404
                   \/ /\ svc[p].code = "VERSION_CONFLICT"
                      /\ svc[p].statusCode = 409
                      /\ svc[p].currentVersion # NULL
             /\ svc[p].pc = "returned" => svc[p].version = svc[p].expectedVersion + 1)
    /\ [][\A p \in Handlers :
            /\ (svc[p].pc = "update" /\ svc'[p].pc # "update") =>
                  LET j == svc[p].jobId
                      st == svc[p].status
                      v == svc[p].expectedVersion
                  IN IF \E r \in server : r.id = j /\ r.version = v
                     THEN /\ svc'[p].pc = "returned"
                          /\ \A r \in server :
                                IF r.id = j
                                THEN \E r2 \in server' :
                                        /\ r2.id = j
                                        /\ r2.version = r.version + 1
                                        /\ r2.status = IF st = UNDEFINED THEN r.status ELSE st
                                ELSE r \in server'
                          /\ Cardinality(server') = Cardinality(server)
                     ELSE server' = server /\ svc'[p].pc = "exists"
            /\ (svc[p].pc # "update" /\ svc'[p].pc = "update") => server' = server
            /\ (svc[p].pc = "exists" /\ svc'[p].pc # "exists") =>
                  /\ server' = server
                  /\ (svc'[p].pc = "thrown") = (ServerRows(server, svc[p].jobId) = {})
            /\ (svc[p].pc = "version" /\ svc'[p].pc # "version") =>
                  /\ server' = server
                  /\ svc'[p].pc = "thrown"
                  /\ svc'[p].expectedVersion = svc[p].expectedVersion
                  /\ \E r \in ServerRows(server, svc[p].jobId) :
                        svc'[p].currentVersion = r.version]_vars

\* one request has been applied and the other, sent with the version the
\* first one replaced, has been refused with the version now current
C20_Witness ==
    /\ svc["req-1"].pc = "returned"
    /\ svc["req-2"].pc = "thrown"
    /\ svc["req-2"].code = "VERSION_CONFLICT"
    /\ svc["req-2"].jobId = svc["req-1"].jobId
    /\ svc["req-2"].expectedVersion = svc["req-1"].expectedVersion
    /\ svc["req-2"].currentVersion = svc["req-1"].version

SameCall(p, q) ==
    /\ p # q
    /\ svc[p].jobId = svc[q].jobId
    /\ svc[p].expectedVersion = svc[q].expectedVersion

\* C21: of two updateJob calls for the same job carrying the same
\* expectedVersion, run concurrently or one after the other, at most one is
\* applied and the other is refused with VERSION_CONFLICT (409); no step
\* lowers a job's version or removes the job.
C21_NoLostUpdate ==
    /\ [](\A p, q \in Handlers :
             (SameCall(p, q) /\ svc[p].pc = "returned") =>
                 /\ svc[q].pc # "returned"
                 /\ svc[q].pc = "thrown" =>
                       svc[q].code = "VERSION_CONFLICT" /\ svc[q].statusCode = 409)
    /\ [][\A r \in server : \E r2 \in server' : r2.id = r.id /\ r2.version >= r.version]_vars

\* two calls for the same job and version were in flight together before
\* either UPDATE ran; the first was applied, the second refused
C21_Witness ==
    /\ svc["req-1"].pc = "returned"
    /\ svc["req-2"].pc = "thrown"
    /\ svc["req-2"].raced
    /\ SameCall("req-1", "req-2")
    /\ svc["req-2"].code = "VERSION_CONFLICT"
    /\ svc["req-2"].currentVersion = svc["req-1"].expectedVersion + 1

----------------------------------------------------------------------------
(* SpecWrites: the two write paths of the backend to a job, updateJob behind
   PATCH /jobs/:id and the batch handler POST /sync/push, called by any
   number of clients *)

\* POST /sync/push, a change with entityType job and action update:
\* UPDATE jobs SET status = ? (when truthy), updated_at = now
\*             WHERE id = ? AND version = ?
syncPushRows(sv, entityId, status, version, now) ==
    {IF r.id = entityId /\ r.version = version
        THEN [r EXCEPT !.status = IF status = UNDEFINED THEN r.status ELSE status,
                       !.updated_at = now]
        ELSE r : r \in sv}

\* POST /sync/push: the UPDATE of one change is executed; a row returned, the
\* result is success with its version; none, the handler goes on to read the
\* current version
SyncPushUpdate(p, entityId, status, version) ==
    /\ svc[p].pc \in {"idle", "returned", "thrown"}
    /\ server' = syncPushRows(server, entityId, status, version, serverClock)
    /\ IF \E r \in server : r.id = entityId /\ r.version = version
       THEN /\ svc' = [svc EXCEPT ![p] = IdleHandler]
            /\ hist' = [H("syncPush:success", 0) EXCEPT
                          !.job = entityId, !.ver = version, !.n = version]
       ELSE /\ svc' = [svc EXCEPT ![p] = [IdleHandler EXCEPT !.pc = "push_version",
                                                            !.jobId = entityId,
                                                            !.expectedVersion = version]]
            /\ hist' = H("step", 0)
    /\ UNCHANGED serverClock
    /\ UNCHANGED nonServerVars

\* POST /sync/push: no row was updated; SELECT version and the result
\* VERSION_CONFLICT with serverVersion
SyncPushVersion(p) ==
    /\ svc[p].pc = "push_version"
    /\ svc' = [svc EXCEPT ![p] = IdleHandler]
    /\ hist' = [H("syncPush:conflict", 0) EXCEPT
                  !.job = svc[p].jobId, !.ver = svc[p].expectedVersion,
                  !.n = IF ServerRows(server, svc[p].jobId) = {} THEN 0
                        ELSE (CHOOSE r \in ServerRows(server, svc[p].jobId) : TRUE).version]
    /\ UNCHANGED <<server, serverClock>>
    /\ UNCHANGED nonServerVars

NextWrites ==
    \/ \E p \in Handlers, j \in JobIds, st \in UpdateStatuses,
          v \in 1..MaxVersion : UpdateJobSelect(p, j, st, v)
    \/ \E p \in Handlers : UpdateJobUpdate(p)
    \/ \E p \in Handlers : UpdateJobExists(p)
    \/ \E p \in Handlers : UpdateJobVersion(p)
    \/ \E p \in Handlers, j \in JobIds, st \in UpdateStatuses,
          v \in 1..MaxVersion : SyncPushUpdate(p, j, st, v)
    \/ \E p \in Handlers : SyncPushVersion(p)
    \/ ServerTick

SpecWrites == Init /\ [][NextWrites]_vars

\* C37: every write of either path that changes a job row adds 1 to its
\* version, so an expected version read before the write no longer matches.
C37_EveryWriteIncrementsVersion ==
    [][\A r \in server : \A r2 \in server' :
          (r2.id = r.id /\ r2 # r) => r2.version = r.version + 1]_vars

----------------------------------------------------------------------------
(* SpecPhoto: photoUploadStore.  queuePhoto, retryUpload and the NetInfo
   listener call startProcessing, which runs up to its next await in the same
   step as its caller.  Items carry the fields the loop reads: id, status,
   retryCount; the awaits of one upload (readFile, directUpload,
   confirmPhotoUpload) are one step. *)

nonPhotoVars == <<queue, nextId, enq, deviceClock, localJobs, memJobs, server,
                  serverClock, networkStatus, isSyncing, lastSyncedAt, pendingCount,
                  conflicts, backoff, svc, error, cycle>>

\* the find() of the loop: pending, or error with retries left
Uploadable(item) ==
    item.status = "pending" \/ (item.status = "error" /\ item.retryCount < PHOTO_MAX_RETRIES)

\* queue.map replacing the item id by f applied to it
MapItem(q, id, f(_)) == [k \in 1..Len(q) |-> IF q[k].id = id THEN f(q[k]) ELSE q[k]]

\* one turn of the while loop of invocation i up to its next await: no item
\* found, break and set({isProcessing: false, currentUploadId: null}); else
\* set currentUploadId, mark the item uploading and start the upload
LoopTurn(ph, i) ==
    LET idxs == {k \in 1..Len(ph.queue) : Uploadable(ph.queue[k])} IN
    IF idxs = {}
    THEN [ph EXCEPT !.isProcessing = FALSE, !.currentUploadId = 0, !.proc[i] = IdleProc]
    ELSE LET k == CHOOSE x \in idxs : \A y \in idxs : x <= y
             pendingItem == ph.queue[k]
             uploading(item) == [item EXCEPT !.status = "uploading"]
         IN [ph EXCEPT !.currentUploadId = pendingItem.id,
                       !.queue = MapItem(ph.queue, pendingItem.id, uploading),
                       !.proc[i] = [pc |-> "uploading", id |-> pendingItem.id,
                                    retryCount |-> pendingItem.retryCount]]

FreeProc(ph) == CHOOSE i \in PhotoProcs :
                   ph.proc[i].pc = "idle" /\ \A j \in PhotoProcs : ph.proc[j].pc = "idle" => i <= j

\* startProcessing up to its first await: the isProcessing test, then
\* NetInfo.fetch() is awaited
startProcessing(ph) ==
    IF ph.isProcessing THEN ph
    ELSE [ph EXCEPT !.proc[FreeProc(ph)] = [IdleProc EXCEPT !.pc = "fetching"]]

\* a call of startProcessing on ph is one the invocation slots can hold
CanCall(ph) == ph.isProcessing \/ \E i \in PhotoProcs : ph.proc[i].pc = "idle"

\* the caller's test: if (!isProcessing) get().startProcessing()
StartIfNotProcessing(ph) == IF ~ph.isProcessing THEN startProcessing(ph) ELSE ph

\* queuePhoto(photo)
QueuePhoto ==
    /\ Len(photo.queue) < MaxPhotos
    /\ LET newItem == [id |-> Len(photo.queue) + 1, status |-> "pending", retryCount |-> 0]
           ph == [photo EXCEPT !.queue = Append(photo.queue, newItem)]
       IN /\ CanCall(ph)
          /\ photo' = StartIfNotProcessing(ph)
    /\ hist' = H("queuePhoto", 0)
    /\ UNCHANGED nonPhotoVars

\* retryUpload(id), offered by PhotoField for an item whose status is error
RetryUpload(id) ==
    /\ \E k \in 1..Len(photo.queue) : photo.queue[k].id = id /\ photo.queue[k].status = "error"
    /\ LET reset(item) == [item EXCEPT !.status = "pending", !.retryCount = 0]
           ph == [photo EXCEPT !.queue = MapItem(photo.queue, id, reset)]
       IN /\ CanCall(ph)
          /\ photo' = StartIfNotProcessing(ph)
    /\ hist' = H("retryUpload", id)
    /\ UNCHANGED nonPhotoVars

\* startProcessing: NetInfo.fetch() resolves; not connected, a listener is
\* registered and the call returns; connected, set({isProcessing: true}) and
\* the first turn of the loop
FetchResolves(i, isConnected) ==
    /\ photo.proc[i].pc = "fetching"
    /\ photo' = IF isConnected
                THEN LoopTurn([photo EXCEPT !.isProcessing = TRUE], i)
                ELSE [photo EXCEPT !.proc[i].pc = "listening"]
    /\ hist' = H("step", 0)
    /\ UNCHANGED nonPhotoVars

\* the NetInfo listener of invocation i is called with isConnected true:
\* unsubscribe() and get().startProcessing()
ListenerConnected(i) ==
    /\ photo.proc[i].pc = "listening"
    /\ photo' = startProcessing([photo EXCEPT !.proc[i] = IdleProc])
    /\ hist' = H("step", 0)
    /\ UNCHANGED nonPhotoVars

\* the try block of invocation i settles: the item is marked complete and the
\* next turn runs, or it is marked error with retryCount + 1 and, while the
\* count read when the item was picked leaves retries, the delay is awaited
UploadSettles(i, ok) ==
    /\ photo.proc[i].pc = "uploading"
    /\ LET id == photo.proc[i].id
           complete(item) == [item EXCEPT !.status = "complete"]
           failed(item) == [item EXCEPT !.status = "error", !.retryCount = item.retryCount + 1]
       IN photo' =
            IF ok THEN LoopTurn([photo EXCEPT !.queue = MapItem(photo.queue, id, complete)], i)
            ELSE LET ph == [photo EXCEPT !.queue = MapItem(photo.queue, id, failed)]
                 IN IF photo.proc[i].retryCount + 1 < PHOTO_MAX_RETRIES
                    THEN [ph EXCEPT !.proc[i].pc = "waiting"]
                    ELSE LoopTurn(ph, i)
    /\ hist' = H("step", 0)
    /\ UNCHANGED nonPhotoVars

\* the RETRY_DELAY timer of invocation i fires: the next turn of the loop
RetryDelayDone(i) ==
    /\ photo.proc[i].pc = "waiting"
    /\ photo' = LoopTurn(photo, i)
    /\ hist' = H("step", 0)
    /\ UNCHANGED nonPhotoVars

NextPhoto ==
    \/ QueuePhoto
    \/ \E id \in 1..MaxPhotos : RetryUpload(id)
    \/ \E i \in PhotoProcs, isConnected \in BOOLEAN : FetchResolves(i, isConnected)
    \/ \E i \in PhotoProcs : ListenerConnected(i)
    \/ \E i \in PhotoProcs, ok \in BOOLEAN : UploadSettles(i, ok)
    \/ \E i \in PhotoProcs : RetryDelayDone(i)

SpecPhoto == Init /\ [][NextPhoto]_vars

\* the invocations of startProcessing inside the while loop
ProcessingLoops == {i \in PhotoProcs : photo.proc[i].pc \in {"uploading", "waiting"}}

UploadingItems == {k \in 1..Len(photo.queue) : photo.queue[k].status = "uploading"}

\* C38: at most one processing loop is running, at most one item has status
\* uploading, and isProcessing is true whenever an item is uploading.
C38_PhotoSingleFlight ==
    /\ Cardinality(ProcessingLoops) <= 1
    /\ Cardinality(UploadingItems) <= 1
    /\ UploadingItems # {} => photo.isProcessing

====
